---- MODULE Spec2Model ----
(***************************************************************************)
(* Verification model of codex-mem: the worker's pending-message queue,    *)
(* the provider agents (GeminiAgent with its fallback, CodexAgent), the    *)
(* checkpointed transcript ingestion (CodexHistoryIngestor), the Gemini    *)
(* rate limiter, the stdio bridge, the settings, the data directory        *)
(* migration and the tag stripping.                                        *)
(***************************************************************************)
EXTENDS Integers, Sequences, FiniteSets, TLC

(***************************************************************************)
(* Bounds of the model                                                     *)
(***************************************************************************)
MaxMessages == 3
MaxTasks == 1

(***************************************************************************)
(* Configuration                                                           *)
(***************************************************************************)
\* per-session cap of the pending queue (spec 4.2: "default small, e.g. 3")
PendingCap == 3

Sessions == {1}
MessageTypes == {"observation", "summarize"}
Providers == {"gemini", "codex"}
\* what a provider call can come back with at its suspension point
Outcomes == {"content", "empty", "network", "http5xx", "rate429", "http4xx"}
NoMsg == [id |-> 0, type |-> "none", session |-> 0]
NoInflight == [id |-> 0, next |-> 0]

VARIABLES
    \* ---- worker: queue, sessions, agents ----
    fallbackConfigured, \* GeminiAgent.fallbackAgent # null
    nextId,             \* next PendingMessage id
    pending,            \* the queue table: set of messages
    lastIngest,         \* what the last ingest request answered to its caller
    pc,                 \* per session and agent: where startSession is suspended
    cur,                \* per session and agent: the message claimed by its loop
    history,            \* per session: session.conversationHistory
    stored,             \* observations/summaries written by processAgentResponse
    taskCount,          \* per session: tasks started so far
    lastOutcome,        \* per session: how the last task ended
    originalTimestamp,  \* per session: the timestamp captured by the loop at the claim
    \* ---- per-task bookkeeping of what happened (history variables) ----
    eligibleFailures,   \* fallback-eligible failures seen by GeminiAgent
    fallbackCalls,      \* calls of fallbackAgent.startSession
    callsAfterHandoff,  \* provider calls of GeminiAgent after it handed over
    handoffHistory,     \* conversationHistory at the moment of the handoff
    inflight,           \* the message that was claimed when handing off, and the
                        \* id the next enqueue was going to get at that moment
    fbStored,           \* ids whose turn the fallback agent processed
    aborted,            \* session.abortController.signal.aborted
    \* ---- transcript ingestion (runCodexHistoryIngestion) ----
    fileRecords,        \* per transcript file: its records, by line number
    sessionOf,          \* per transcript file: the session_id of its records
    cliOptions,         \* options.includeSystem, options.skipSummaries
    stateFile,          \* fileCheckpoints of the checkpoint state file on disk
    checkpointState,    \* fileCheckpoints as loaded when the run started
    runPc,              \* where the run is suspended
    limitOpt,           \* options.limit of the run
    selected,           \* selectedRecordEntries
    cursor,             \* index of the next selected record
    ingested,           \* ingestedRecordEntries
    stoppedAt,          \* index in selected of the record that failed, 0 if none
    posts,              \* POSTs sent to the worker by the run, in order
    runs,               \* runs started so far
    thisRun,            \* what the run did: truncated by limit, all ingested, saved
    prevRun,            \* the same for the run before it
    \* ---- memory session ids (ensureMemorySessionId) ----
    memorySessionId,    \* per session: session.memorySessionId of the in-memory object
    persistedMemoryId,  \* per session: sdk_sessions.memory_session_id
    agentRuns,          \* startSession invocations so far
    lastRun,            \* the last invocation: its session and its provider
    \* ---- postJsonWithRetry ----
    retryPolicy,        \* retryPolicy: maxAttempts, baseDelayMs
    attempt,            \* the loop variable
    retryPc,            \* "fetch", "sleeping", "returned" or "thrown"
    fetchCalls,         \* calls of fetchFn so far
    sleepCalls,         \* the arguments of the calls of sleepFn, in order
    lastFetch,          \* what the last call of fetchFn came back with
    \* ---- the checkpoint state file (load / save) ----
    checkpointFile,     \* the state file on disk, as JSON.parse reads it
    loadedCheckpoints,  \* fileCheckpoints of the state returned by the last load
    loadPc,             \* "unloaded", or "loaded" since the file was last written
    \* ---- GeminiAgent.queryGeminiMultiTurn and its rate limiter ----
    rateLimitingEnabled, \* CLAUDE_MEM_GEMINI_RATE_LIMITING_ENABLED # 'false'
    dateNow,            \* Date.now()
    lastRequestTime,    \* the module variable lastRequestTime
    qPc,                \* per session: where its query is suspended
    qModel,             \* per session: the model parameter of the running call
    qWake,              \* per session: when the timer of the rate limiter fires
    qFetches,           \* per session: the answered fetches of its query, in order
    requests,           \* the fetches sent to the API: model and time, in order
    \* ---- the stdio bridge ----
    workerUp,           \* the worker process answers on its port
    bPc,                \* where the tools/call handler is suspended
    bPhase,             \* 1 before the first fetch, 2 once it has thrown
    bTool,              \* request.params.name
    bRequests,          \* the fetches of the worker made for this tool call
    bStarts,            \* calls of startWorkerViaCli by the running ensureWorkerAvailable
    bElapsed,           \* time spent in waitForWorkerConnection
    bFirst,             \* how the first fetch ended
    bEnsure,            \* what ensureWorkerAvailable answered before the retry
    bResult,            \* what the tool call answered
    toolListing,        \* the names of the last tools/list answer
    toolCalls,          \* tools/call requests so far
    \* ---- SettingsDefaultsManager ----
    processEnv,         \* process.env
    settingsFile,       \* the settings file on disk
    warnedDeprecationKeys, \* the static set warnedDeprecationKeys
    warnings,           \* per legacy key: deprecation warnings written so far
    loads,              \* calls of loadFromFile so far
    loadedSettings,     \* what the last call of loadFromFile returned
    settingsLoaded,     \* a load has been made since the environment last changed
    \* ---- runDataDirMigration ----
    legacyDir,          \* the legacy data directory: whether it exists, its files
    canonicalDir,       \* the canonical data directory, lock and report apart
    lockFile,           \* the run that wrote the lock file, 0 if there is none
    reportFile,         \* the run that wrote the report file, 0 if there is none
    migrationRuns,      \* calls of runDataDirMigration so far
    migrationOptions,   \* the options of the last call
    migrationResult,    \* what the last call returned
    fsBefore,           \* the canonical directory as the last call found it
    migrationJustRan,   \* no file was written since the last call returned
    \* ---- tag stripping ----
    content,            \* the text given to stripMemoryTagsFromPrompt / FromJson
    stripped,           \* what it returned
    strippedAgain,      \* what it returned for that result
    stripPc,            \* "input", "stripped" or "stripped-again"
    \* ---- POST /sessions/init ----
    initRequests,       \* requests answered so far
    initPrompt,         \* the prompt the client sends
    initPlatform,       \* the platform of the last request
    initResponse,       \* the body of the last response
    userPromptCount,    \* rows of the prompt table
    savedPromptText,    \* the text of the row written last
    newPromptEvents,    \* new_prompt events broadcast so far
    \* ---- prompt search ----
    promptRows,         \* the prompt table: text and project of each row, by id
    promptVectors,      \* ids of the prompts the vector index holds
    vectorUp,           \* the vector backend answers
    searches,           \* prompt searches answered so far
    searchArgs,         \* query and project of the last search
    vectorAnswer,       \* what the vector backend gave the last search
    searchResult,       \* rows and source of the last answer
    \* ---- the codex-app integration in ~/.codex/config.toml ----
    configFile,         \* config.toml: whether it exists, its lines
    installState,       \* codex-app-install-state.json, or that there is none
    userConfig,         \* config.toml as it was before the first install to undo
    installsSince,      \* installs since the last uninstall
    installsUndone,     \* installs that the last uninstall had to undo
    installerOp,        \* the last command: "none", "install" or "uninstall"
    installerOps,       \* commands run so far
    \* ---- codex-app notify-turn-complete ----
    notifyPc,           \* per invocation: where it is
    notifyLock,         \* the lock file: "none", or "fresh" or "stale" by its mtime
    lastRunRecent,      \* the last-run file is younger than the debounce time
    \* ---- the stdio bridge: overlapping calls of ensureWorkerAvailable ----
    workerAnswers,      \* the worker answers the health check
    workerStartupPromise, \* the module variable: 0 for null, else the attempt
    startAttempts,      \* per start attempt: "polling", "true" or "false"
    callerPc,           \* per call: where it is suspended
    callerWaitsOn,      \* per call: the attempt whose promise it returned
    callerResult,       \* per call: what its caller got
    \* ---- ingestion runs with --since, --dry-run; what the worker accepted ----
    recordTs,           \* per transcript file: record.ts of its records, by line
    sinceOpt,           \* options.sinceTs of the run
    dryRunOpt,          \* options.dryRun of the run
    ensureWorkerCalls,  \* calls of ensureWorker so far
    initAccepted,       \* the records whose init POST the worker has accepted
    observationPosts,   \* per record: observation POSTs the worker has accepted
    selectedNothing,    \* a run has selected no record
    sinceUsed           \* the latest since-timestamp given to a run that was not
                        \* a dry run, 0 if there was none

agentVars == <<fallbackConfigured, nextId, pending, lastIngest, pc, cur,
               history, stored, taskCount, lastOutcome, originalTimestamp>>
ghostVars == <<eligibleFailures, fallbackCalls, callsAfterHandoff, handoffHistory,
               inflight, fbStored, aborted>>
ingestVars == <<fileRecords, sessionOf, cliOptions, stateFile, checkpointState, runPc, limitOpt, selected,
                cursor, ingested, stoppedAt, posts, runs, thisRun, prevRun>>
memVars == <<memorySessionId, persistedMemoryId, agentRuns, lastRun>>
retryVars == <<retryPolicy, attempt, retryPc, fetchCalls, sleepCalls, lastFetch>>
loadVars == <<checkpointFile, loadedCheckpoints, loadPc>>
queryVars == <<rateLimitingEnabled, dateNow, lastRequestTime, qPc, qModel, qWake,
               qFetches, requests>>
earlierVars == <<agentVars, ghostVars, ingestVars, memVars, retryVars, loadVars>>
bridgeVars == <<workerUp, bPc, bPhase, bTool, bRequests, bStarts, bElapsed, bFirst,
                bEnsure, bResult, toolListing, toolCalls>>
settingsVars == <<processEnv, settingsFile, warnedDeprecationKeys, warnings, loads,
                  loadedSettings, settingsLoaded>>
migrationVars == <<legacyDir, canonicalDir, lockFile, reportFile, migrationRuns,
                   migrationOptions, migrationResult, fsBefore, migrationJustRan>>
stripVars == <<content, stripped, strippedAgain, stripPc>>
sessionInitVars == <<initRequests, initPrompt, initPlatform, initResponse,
                     userPromptCount, savedPromptText, newPromptEvents>>
searchVars == <<promptRows, promptVectors, vectorUp, searches, searchArgs,
                vectorAnswer, searchResult>>
installerVars == <<configFile, installState, userConfig, installsSince, installsUndone,
                   installerOp, installerOps>>
notifyVars == <<notifyPc, notifyLock, lastRunRecent>>
startupVars == <<workerAnswers, workerStartupPromise, startAttempts, callerPc,
                 callerWaitsOn, callerResult>>
runVars == <<recordTs, sinceOpt, dryRunOpt, ensureWorkerCalls, initAccepted,
             observationPosts, selectedNothing, sinceUsed>>
lastVars == <<sessionInitVars, searchVars, installerVars, notifyVars, startupVars, runVars>>
laterVars == <<queryVars, bridgeVars, settingsVars, migrationVars, stripVars, lastVars>>
middleVars == <<queryVars, bridgeVars, settingsVars, migrationVars, stripVars>>
vars == <<earlierVars, laterVars>>

\* what the steps of one component leave alone
outsideWorker == <<ingestVars, memVars, retryVars, loadVars, laterVars>>
outsideIngest == <<agentVars, ghostVars, memVars, retryVars, loadVars, laterVars>>
outsideMemory == <<agentVars, ghostVars, ingestVars, retryVars, loadVars, laterVars>>
outsideRetry == <<agentVars, ghostVars, ingestVars, memVars, loadVars, laterVars>>
outsideLoad == <<agentVars, ghostVars, ingestVars, memVars, retryVars, laterVars>>

outsideQuery == <<earlierVars, bridgeVars, settingsVars, migrationVars, stripVars, lastVars>>
outsideBridge == <<earlierVars, queryVars, settingsVars, migrationVars, stripVars, lastVars>>
outsideSettings == <<earlierVars, queryVars, bridgeVars, migrationVars, stripVars, lastVars>>
outsideStrip == <<earlierVars, queryVars, bridgeVars, settingsVars, migrationVars, lastVars>>
outsideMigration == <<earlierVars, queryVars, bridgeVars, settingsVars, stripVars, lastVars>>

outsideSessionInit == <<earlierVars, middleVars, searchVars, installerVars, notifyVars, startupVars, runVars>>
outsideSearch == <<earlierVars, middleVars, sessionInitVars, installerVars, notifyVars, startupVars, runVars>>
outsideInstaller == <<earlierVars, middleVars, sessionInitVars, searchVars, notifyVars, startupVars, runVars>>
outsideNotify == <<earlierVars, middleVars, sessionInitVars, searchVars, installerVars, startupVars, runVars>>
outsideStartup == <<earlierVars, middleVars, sessionInitVars, searchVars, installerVars, notifyVars, runVars>>
outsideRuns == <<agentVars, ghostVars, memVars, retryVars, loadVars, middleVars, sessionInitVars, searchVars, installerVars, notifyVars, startupVars>>

IsPrefix(a, b) == Len(a) <= Len(b) /\ SubSeq(b, 1, Len(a)) = a

(***************************************************************************)
(* PendingMessageStore                                                     *)
(***************************************************************************)
PendingOf(pend, s) == {m \in pend : m.session = s}

\* priority 0 for summarize, 1 for observation
Priority(type) == IF type = "summarize" THEN 0 ELSE 1

Before(a, b) ==
    \/ Priority(a.type) < Priority(b.type)
    \/ Priority(a.type) = Priority(b.type) /\ a.id < b.id

\* claimAndDelete that picks by id only, ignoring the message type
NextToClaimFifo(pend, s) ==
    CHOOSE m \in PendingOf(pend, s) : \A o \in PendingOf(pend, s) : m.id <= o.id

\* the message claimAndDelete returns: priority ascending, then id ascending
NextToClaim(pend, s) ==
    CHOOSE m \in PendingOf(pend, s) :
        \A o \in PendingOf(pend, s) : o = m \/ Before(m, o)

\* an over-cap enqueue that answers "queued" without inserting
EnqueueSilentDrop(pend, s, type, id) ==
    IF Cardinality(PendingOf(pend, s)) >= PendingCap
    THEN [pending |-> pend, ok |-> TRUE]
    ELSE [pending |-> pend \cup {[id |-> id, type |-> type, session |-> s]}, ok |-> TRUE]

\* enqueue: rejected to the caller when the session is at its cap
Enqueue(pend, s, type, id) ==
    IF Cardinality(PendingOf(pend, s)) >= PendingCap
    THEN [pending |-> pend, ok |-> FALSE]
    ELSE [pending |-> pend \cup {[id |-> id, type |-> type, session |-> s]}, ok |-> TRUE]

(***************************************************************************)
(* Agents: shared helpers                                                  *)
(***************************************************************************)
isAbortError(err) == err = "abort"

\* fallback-eligible: network, 5xx, rate limit
shouldFallbackToClaude(err) == err \in {"network", "http5xx", "rate429"}

\* a turn of the conversation: its role and the prompt or reply it carries,
\* named by the id of the queued message it belongs to (0: the init prompt)
UserTurn(tag) == <<"user", tag>>
AssistantTurn(tag) == <<"assistant", tag>>

\* time: the message with id k is enqueued at time 2k, and a step of an agent
\* between two enqueues happens at the odd time in between
CreatedAt(m) == 2 * m.id
Now == 2 * nextId - 1

\* session.earliestPendingTimestamp as the message iterator leaves it when it
\* yields: created_at_epoch of the earliest pending message at the claim
EarliestPendingTimestamp(pend, s) ==
    CHOOSE t \in {CreatedAt(m) : m \in PendingOf(pend, s)} :
        \A m \in PendingOf(pend, s) : t <= CreatedAt(m)

\* an agent that hands the time of completion to processAgentResponse
TimestampAtCompletion(original) == Now

\* the timestamp argument of processAgentResponse in the message loop
TimestampArgument(original) == original

\* processAgentResponse: parse the text and store what it holds, created at
\* the original timestamp; without one (0: null) the record is stamped with
\* the time of the call, which the record shows as 0
ProcessAgentResponse(st, s, tag, provider, text, original) ==
    IF text = "" THEN st
    ELSE st \cup {<<s, tag, provider, IF text = "fallback-xml" THEN "synthetic" ELSE "parsed",
                   original>>}

\* a catch block that rethrows every error and never hands over
GeminiCatchNoFallback(err, hasFallback) ==
    IF isAbortError(err) THEN "abort" ELSE "throw"

\* the catch block of GeminiAgent.startSession
GeminiCatch(err, hasFallback) ==
    IF isAbortError(err) THEN "abort"
    ELSE IF shouldFallbackToClaude(err) /\ hasFallback THEN "fallback"
    ELSE "throw"

\* the catch block of CodexAgent.startSession: no fallback
CodexCatch(err) == IF isAbortError(err) THEN "abort" ELSE "throw"

\* a handoff after which GeminiAgent goes on to its message loop
GeminiPcAfterHandoffNoReturn == "loop"

\* `return this.fallbackAgent.startSession(session, worker)`
GeminiPcAfterHandoff == "idle"

\* a fallback agent that starts from a fresh conversation
CodexInitHistoryFresh(h) == <<UserTurn(0)>>

\* CodexAgent.startSession: session.conversationHistory.push(initPrompt)
CodexInitHistory(h) == Append(h, UserTurn(0))

\* GeminiAgent.startSession: session.conversationHistory.push(initPrompt)
GeminiInitHistory(h) == Append(h, UserTurn(0))

\* the agents executing startSession for a session
Active(s) == {a \in Providers : pc[s][a] # "idle"}

RECURSIVE Sum(_, _)
Sum(f, S) == IF S = {} THEN 0 ELSE LET x == CHOOSE x \in S : TRUE IN f[x] + Sum(f, S \ {x})
TasksStarted == Sum(taskCount, Sessions)

(***************************************************************************)
(* Initial state of the worker                                             *)
(***************************************************************************)
WorkerIdle ==
    /\ nextId = 1
    /\ pending = {}
    /\ lastIngest = [id |-> 0, session |-> 0, result |-> "none"]
    /\ pc = [s \in Sessions |-> [a \in Providers |-> "idle"]]
    /\ cur = [s \in Sessions |-> [a \in Providers |-> NoMsg]]
    /\ history = [s \in Sessions |-> <<>>]
    /\ stored = {}
    /\ taskCount = [s \in Sessions |-> 0]
    /\ lastOutcome = [s \in Sessions |-> "none"]
    /\ originalTimestamp = [s \in Sessions |-> 0]

AgentInit == fallbackConfigured \in BOOLEAN /\ WorkerIdle

GhostInit ==
    /\ eligibleFailures = [s \in Sessions |-> 0]
    /\ fallbackCalls = [s \in Sessions |-> 0]
    /\ callsAfterHandoff = [s \in Sessions |-> 0]
    /\ handoffHistory = [s \in Sessions |-> <<>>]
    /\ inflight = [s \in Sessions |-> NoInflight]
    /\ fbStored = [s \in Sessions |-> {}]
    /\ aborted = [s \in Sessions |-> FALSE]

(***************************************************************************)
(* Ingest request: enqueue, answer the caller, ask the scheduler to run    *)
(***************************************************************************)
\* the selected provider's startSession runs up to its first provider call
\* (the hosted provider's API key is configured)
Ingest(s, type, p) ==
    LET r == Enqueue(pending, s, type, nextId)
        inserted == r.pending # pending
        start == Active(s) = {} /\ PendingOf(r.pending, s) # {}
    IN  /\ Active(s) # {} \/ TasksStarted < MaxTasks
        /\ inserted => nextId <= MaxMessages
        /\ pending' = r.pending
        /\ nextId' = IF inserted THEN nextId + 1 ELSE nextId
        /\ lastIngest' = [id |-> nextId, session |-> s,
                          result |-> IF r.ok THEN "queued" ELSE "rejected"]
        /\ IF start
           THEN /\ taskCount' = [taskCount EXCEPT ![s] = @ + 1]
                /\ pc' = [pc EXCEPT ![s][p] = "init_wait"]
                /\ history' = [history EXCEPT ![s] =
                                 IF p = "codex" THEN CodexInitHistory(@)
                                 ELSE GeminiInitHistory(@)]
                /\ lastOutcome' = [lastOutcome EXCEPT ![s] = "running"]
                /\ eligibleFailures' = [eligibleFailures EXCEPT ![s] = 0]
                /\ fallbackCalls' = [fallbackCalls EXCEPT ![s] = 0]
                /\ callsAfterHandoff' = [callsAfterHandoff EXCEPT ![s] = 0]
                /\ handoffHistory' = [handoffHistory EXCEPT ![s] = <<>>]
                /\ inflight' = [inflight EXCEPT ![s] = NoInflight]
                /\ fbStored' = [fbStored EXCEPT ![s] = {}]
                /\ aborted' = [aborted EXCEPT ![s] = FALSE]
           ELSE UNCHANGED <<taskCount, pc, history, lastOutcome, ghostVars>>
        /\ UNCHANGED <<outsideWorker, fallbackConfigured, cur, stored, originalTimestamp>>

(***************************************************************************)
(* Cancellation: the token of the session's task is signalled              *)
(***************************************************************************)
Abort(s) ==
    /\ Active(s) # {}
    /\ ~aborted[s]
    /\ aborted' = [aborted EXCEPT ![s] = TRUE]
    /\ UNCHANGED <<agentVars, outsideWorker, eligibleFailures, fallbackCalls,
                   callsAfterHandoff, handoffHistory, inflight, fbStored>>

(***************************************************************************)
(* How a startSession invocation ends or hands over                        *)
(***************************************************************************)
EndTask(s, a, outcome) ==
    /\ pc' = [pc EXCEPT ![s][a] = "idle"]
    /\ cur' = [cur EXCEPT ![s][a] = NoMsg]
    /\ lastOutcome' = [lastOutcome EXCEPT ![s] = outcome]
    /\ originalTimestamp' = [originalTimestamp EXCEPT ![s] = 0]

\* fallbackAgent.startSession(session, worker): CodexAgent up to its first call
Handoff(s) ==
    /\ pc' = [pc EXCEPT ![s] = [gemini |-> GeminiPcAfterHandoff, codex |-> "init_wait"]]
    /\ history' = [history EXCEPT ![s] = CodexInitHistory(@)]
    /\ cur' = [cur EXCEPT ![s]["gemini"] = NoMsg]
    /\ originalTimestamp' = [originalTimestamp EXCEPT ![s] = 0]
    /\ fallbackCalls' = [fallbackCalls EXCEPT ![s] = @ + 1]
    /\ handoffHistory' = [handoffHistory EXCEPT ![s] = history[s]]
    /\ inflight' = [inflight EXCEPT ![s] = [id |-> cur[s]["gemini"].id, next |-> nextId]]
    /\ UNCHANGED <<lastOutcome, stored, pending, callsAfterHandoff, fbStored>>

CountEligible(s, o, onInit) ==
    eligibleFailures' =
        [eligibleFailures EXCEPT ![s] =
            IF fallbackConfigured
               /\ (o \in {"network", "http5xx", "rate429"} \/ (onInit /\ o = "empty"))
            THEN @ + 1 ELSE @]

\* an error reaches the catch block of GeminiAgent.startSession
GeminiFail(s, err) ==
    LET d == GeminiCatch(err, fallbackConfigured)
    IN  IF d = "fallback"
        THEN Handoff(s)
        ELSE /\ EndTask(s, "gemini", IF d = "abort" THEN "aborted" ELSE "error")
             /\ UNCHANGED <<history, stored, pending, fallbackCalls, handoffHistory,
                            inflight, callsAfterHandoff, fbStored>>

\* an error reaches the catch block of CodexAgent.startSession
CodexFail(s, err) ==
    /\ EndTask(s, "codex", IF CodexCatch(err) = "abort" THEN "aborted" ELSE "error")
    /\ UNCHANGED <<history, stored, pending, fallbackCalls, handoffHistory,
                   inflight, callsAfterHandoff, fbStored>>

(***************************************************************************)
(* GeminiAgent.startSession                                                *)
(***************************************************************************)
\* the init provider call returns (or throws)
GeminiInitResponse(s, o) ==
    /\ pc[s]["gemini"] = "init_wait"
    /\ CountEligible(s, o, TRUE)
    /\ UNCHANGED <<aborted, outsideWorker, fallbackConfigured, nextId, lastIngest, taskCount>>
    /\ IF o = "content"
       THEN /\ history' = [history EXCEPT ![s] = Append(@, AssistantTurn(0))]
            /\ stored' = ProcessAgentResponse(stored, s, 0, "gemini", "xml", 0)
            /\ pc' = [pc EXCEPT ![s]["gemini"] = "loop"]
            /\ UNCHANGED <<cur, lastOutcome, originalTimestamp, pending, fallbackCalls, handoffHistory,
                           inflight, callsAfterHandoff, fbStored>>
       ELSE IF o = "empty"
       THEN IF fallbackConfigured
            THEN Handoff(s)
            ELSE /\ pc' = [pc EXCEPT ![s]["gemini"] = "loop"]
                 /\ UNCHANGED <<history, stored, cur, lastOutcome, originalTimestamp, pending,
                                fallbackCalls,
                                handoffHistory, inflight, callsAfterHandoff, fbStored>>
       ELSE GeminiFail(s, o)

\* one step of `for await (const message of getMessageIterator(...))`:
\* the iterator raises the cancellation when the session's token is
\* signalled; otherwise claim the next message and query the provider, or
\* leave when the queue is drained
GeminiNext(s) ==
    /\ pc[s]["gemini"] = "loop"
    /\ UNCHANGED <<outsideWorker, fallbackConfigured, nextId, lastIngest, taskCount,
                   eligibleFailures, aborted>>
    /\ IF aborted[s]
       THEN GeminiFail(s, "abort")
       ELSE IF PendingOf(pending, s) = {}
       THEN /\ EndTask(s, "gemini", "completed")
            /\ UNCHANGED <<pending, history, stored, callsAfterHandoff, fallbackCalls,
                           handoffHistory, inflight, fbStored>>
       ELSE LET m == NextToClaim(pending, s)
            IN  /\ pending' = pending \ {m}
                /\ cur' = [cur EXCEPT ![s]["gemini"] = m]
                /\ originalTimestamp' =
                       [originalTimestamp EXCEPT ![s] = EarliestPendingTimestamp(pending, s)]
                /\ history' = [history EXCEPT ![s] = Append(@, UserTurn(m.id))]
                /\ pc' = [pc EXCEPT ![s]["gemini"] = "msg_wait"]
                /\ callsAfterHandoff' =
                       [callsAfterHandoff EXCEPT ![s] =
                            IF fallbackCalls[s] > 0 THEN @ + 1 ELSE @]
                /\ UNCHANGED <<lastOutcome, stored, fallbackCalls, handoffHistory,
                               inflight, fbStored>>

\* the provider call for the claimed message returns (or throws)
GeminiMsgResponse(s, o) ==
    LET m == cur[s]["gemini"]
        text == IF o = "content" THEN "xml"
                ELSE IF m.type = "observation" THEN "fallback-xml" ELSE ""
    IN  /\ pc[s]["gemini"] = "msg_wait"
        /\ CountEligible(s, o, FALSE)
        /\ UNCHANGED <<aborted, outsideWorker, fallbackConfigured, nextId, lastIngest, taskCount>>
        /\ IF o \in {"content", "empty"}
           THEN /\ history' = [history EXCEPT ![s] =
                                 IF text = "" THEN @ ELSE Append(@, AssistantTurn(m.id))]
                /\ stored' = ProcessAgentResponse(stored, s, m.id, "gemini", text,
                                                  TimestampArgument(originalTimestamp[s]))
                /\ pc' = [pc EXCEPT ![s]["gemini"] = "loop"]
                /\ cur' = [cur EXCEPT ![s]["gemini"] = NoMsg]
                /\ originalTimestamp' = [originalTimestamp EXCEPT ![s] = 0]
                /\ UNCHANGED <<lastOutcome, pending, fallbackCalls, handoffHistory,
                               inflight, callsAfterHandoff, fbStored>>
           ELSE GeminiFail(s, o)

(***************************************************************************)
(* CodexAgent.startSession                                                 *)
(***************************************************************************)
CodexInitResponse(s, o) ==
    /\ pc[s]["codex"] = "init_wait"
    /\ UNCHANGED <<aborted, outsideWorker, fallbackConfigured, nextId, lastIngest, taskCount,
                   eligibleFailures>>
    /\ IF o \in {"content", "empty"}
       THEN /\ history' = [history EXCEPT ![s] =
                             IF o = "content" THEN Append(@, AssistantTurn(0)) ELSE @]
            /\ stored' = ProcessAgentResponse(stored, s, 0, "codex",
                                              IF o = "content" THEN "xml" ELSE "", 0)
            /\ pc' = [pc EXCEPT ![s]["codex"] = "loop"]
            /\ UNCHANGED <<cur, lastOutcome, originalTimestamp, pending, fallbackCalls, handoffHistory,
                           inflight, callsAfterHandoff, fbStored>>
       ELSE CodexFail(s, o)

CodexNext(s) ==
    /\ pc[s]["codex"] = "loop"
    /\ UNCHANGED <<outsideWorker, fallbackConfigured, nextId, lastIngest, taskCount,
                   eligibleFailures, aborted>>
    /\ IF aborted[s]
       THEN CodexFail(s, "abort")
       ELSE IF PendingOf(pending, s) = {}
       THEN /\ EndTask(s, "codex", "completed")
            /\ UNCHANGED <<pending, history, stored, callsAfterHandoff, fallbackCalls,
                           handoffHistory, inflight, fbStored>>
       ELSE LET m == NextToClaim(pending, s)
            IN  /\ pending' = pending \ {m}
                /\ cur' = [cur EXCEPT ![s]["codex"] = m]
                /\ originalTimestamp' =
                       [originalTimestamp EXCEPT ![s] = EarliestPendingTimestamp(pending, s)]
                /\ history' = [history EXCEPT ![s] = Append(@, UserTurn(m.id))]
                /\ pc' = [pc EXCEPT ![s]["codex"] = "msg_wait"]
                /\ UNCHANGED <<lastOutcome, stored, callsAfterHandoff, fallbackCalls,
                               handoffHistory, inflight, fbStored>>

\* observation: the reply as it is; summarize: normalizeSummaryResponse wraps
\* whatever came back into a <summary> block
CodexMsgResponse(s, o) ==
    LET m == cur[s]["codex"]
        text == IF o = "content" THEN "xml"
                ELSE IF m.type = "summarize" THEN "fallback-xml" ELSE ""
    IN  /\ pc[s]["codex"] = "msg_wait"
        /\ UNCHANGED <<aborted, outsideWorker, fallbackConfigured, nextId, lastIngest, taskCount,
                   eligibleFailures>>
        /\ IF o \in {"content", "empty"}
           THEN /\ history' = [history EXCEPT ![s] =
                                 IF o = "content" THEN Append(@, AssistantTurn(m.id)) ELSE @]
                /\ stored' = ProcessAgentResponse(stored, s, m.id, "codex", text,
                                                  TimestampArgument(originalTimestamp[s]))
                /\ pc' = [pc EXCEPT ![s]["codex"] = "loop"]
                /\ cur' = [cur EXCEPT ![s]["codex"] = NoMsg]
                /\ originalTimestamp' = [originalTimestamp EXCEPT ![s] = 0]
                /\ fbStored' = [fbStored EXCEPT ![s] =
                                  IF fallbackCalls[s] > 0 THEN @ \cup {m.id} ELSE @]
                /\ UNCHANGED <<lastOutcome, pending, fallbackCalls, handoffHistory,
                               inflight, callsAfterHandoff>>
           ELSE CodexFail(s, o)

(***************************************************************************)
(* Transcript ingestion: CodexHistoryIngestor                              *)
(***************************************************************************)
MaxLines == 2
MaxLimit == 2
MaxRuns == 2

\* orderedHistoryPaths: the transcript files, oldest first. File 1 is a
\* legacy history.jsonl: its records carry no workspace path and their text
\* is kept as written. File 2 is a session transcript: the parser trims the
\* messages, drops the blank ones and gives the records the cwd of the
\* session_meta line.
Files == {1, 2}
SessionNames == {1, 2}
LegacyKinds == {"padded", "empty"}
TranscriptKinds == {"text", "system"}
RecordKinds == LegacyKinds \cup TranscriptKinds
KindsOf(f) == IF f = 1 THEN LegacyKinds ELSE TranscriptKinds
PostOutcomes == {"ok", "initFail", "observationFail"}
NoRun == [truncated |-> FALSE, allIngested |-> FALSE, saved |-> FALSE]
DefaultOptions == [includeSystem |-> FALSE, skipSummaries |-> FALSE]

\* record.text of a record of each kind
TextOf(kind) ==
    IF kind = "text" THEN "fix the bug"
    ELSE IF kind = "padded" THEN "  fix the bug "
    ELSE IF kind = "system" THEN "[experimental] feature enabled"
    ELSE "   "

\* String.prototype.trim on these texts
Trim(text) ==
    IF text = "  fix the bug " THEN "fix the bug"
    ELSE IF text = "   " THEN ""
    ELSE text

\* blank text, or one of the warnings the CLI prints
isSystemRecord(text) == Trim(text) = "" \/ Trim(text) = "[experimental] feature enabled"

\* record.workspacePath of the records of a file, <<>> when they have none
TranscriptCwd == <<"Users", "dev", "project-alpha">>
WorkspacePathOf(f) == IF f = 1 THEN <<>> ELSE TranscriptCwd
\* options.workspacePath
CliWorkspace == <<"fallback", "workspace">>

\* `codex-${sessionId}`
toContentSessionId(sessionId) == <<"codex-", sessionId>>

\* a resolution that takes the workspace of the CLI for every record
resolveWorkspacePathFallbackOnly(recordWorkspacePath, fallbackWorkspacePath) ==
    fallbackWorkspacePath

resolveWorkspacePathForRecord(recordWorkspacePath, fallbackWorkspacePath) ==
    IF recordWorkspacePath # <<>> THEN recordWorkspacePath ELSE fallbackWorkspacePath

\* basename(workspacePath)
workspacePathToProjectName(workspacePath) == workspacePath[Len(workspacePath)]

\* line numbers, ascending from l, of the records that pass the system filter
\* and lie after the given line
RECURSIVE LinesFrom(_, _, _, _)
LinesFrom(records, after, includeSystem, l) ==
    IF l > Len(records) THEN <<>>
    ELSE (IF (includeSystem \/ ~isSystemRecord(TextOf(records[l]))) /\ l > after
          THEN <<l>> ELSE <<>>)
             \o LinesFrom(records, after, includeSystem, l + 1)

\* a selection that forgets the checkpoint of the file
selectRecordsIgnoringCheckpoint(records, checkpointLine, includeSystem) ==
    LinesFrom(records, 0, includeSystem, 1)

\* selectRecordsForIngestion without since-timestamp and limit: a checkpoint
\* of 0 means no previous state, which filters nothing
selectRecordsForIngestion(records, checkpointLine, includeSystem) ==
    LinesFrom(records, checkpointLine, includeSystem, 1)

\* options.sinceTs: undefined unless has is set
NoSince == [has |-> FALSE, ts |-> 0]
\* selectedRecords.filter(record => record.ts >= options.sinceTs)
SinceFilter(f, lines, since) ==
    IF since.has THEN SelectSeq(lines, LAMBDA l : recordTs[f][l] >= since.ts) ELSE lines

\* a cut that keeps the last records of the file
TruncateLast(recs, hasLimit, remaining) ==
    IF hasLimit /\ Len(recs) > remaining
    THEN SubSeq(recs, Len(recs) - remaining + 1, Len(recs)) ELSE recs

\* selectedRecords.slice(0, remainingLimit) when a limit is set
Truncate(recs, hasLimit, remaining) ==
    IF hasLimit /\ Len(recs) > remaining THEN SubSeq(recs, 1, remaining) ELSE recs

\* the selection loop over the files from f on, with what is left of the limit
RECURSIVE SelectEntries(_, _, _, _, _)
SelectEntries(f, cps, hasLimit, remaining, since) ==
    IF f \notin Files \/ (hasLimit /\ remaining <= 0) THEN <<>>
    ELSE LET recs == Truncate(SinceFilter(f, selectRecordsForIngestion(
                                                 fileRecords[f], cps[f],
                                                 cliOptions.includeSystem), since),
                              hasLimit, remaining)
         IN  [i \in 1..Len(recs) |-> [file |-> f, line |-> recs[i]]]
                 \o SelectEntries(f + 1, cps, hasLimit, remaining - Len(recs), since)

RECURSIVE FoldCheckpoints(_, _)
FoldCheckpoints(cps, entries) ==
    IF entries = <<>> THEN cps
    ELSE FoldCheckpoints([cps EXCEPT ![Head(entries).file] = Head(entries).line],
                         Tail(entries))

\* checkpoints advanced over every selected record, the failed one included
updatedCheckpointsOfSelected(cps, entries) == FoldCheckpoints(cps, selected)

\* updatedCheckpoints[path] = lineNumber for each ingested entry, in order
updatedCheckpoints(cps, entries) == FoldCheckpoints(cps, entries)

KindOfEntry(e) == fileRecords[e.file][e.line]
SessionOfEntry(e) == sessionOf[e.file]

InitPost(e) ==
    [kind |-> "init", file |-> e.file, line |-> e.line,
     contentSessionId |-> toContentSessionId(SessionOfEntry(e)),
     project |-> workspacePathToProjectName(
                     resolveWorkspacePathForRecord(WorkspacePathOf(e.file), CliWorkspace)),
     prompt |-> Trim(TextOf(KindOfEntry(e))),
     platform |-> "codex"]

ObservationPost(e) ==
    [kind |-> "observation", file |-> e.file, line |-> e.line,
     contentSessionId |-> toContentSessionId(SessionOfEntry(e)),
     project |-> "", prompt |-> "", platform |-> ""]

\* the POSTs ingestObservationRecord sends: none for a blank text; else init,
\* then observations unless the init POST failed
PostsOfRecord(e, outcome) ==
    IF Trim(TextOf(KindOfEntry(e))) = "" THEN <<>>
    ELSE IF outcome = "initFail" THEN <<InitPost(e)>>
    ELSE <<InitPost(e), ObservationPost(e)>>

LinesOf(entries, f) == {entries[i].line : i \in {j \in 1..Len(entries) : entries[j].file = f}}
MaxOf(S) == CHOOSE x \in S : \A y \in S : y <= x

SummarizePost(e) ==
    [kind |-> "summarize", file |-> e.file, line |-> e.line,
     contentSessionId |-> toContentSessionId(SessionOfEntry(e)),
     project |-> "", prompt |-> "", platform |-> ""]

\* one summary request for every record
buildSummaryRequestPerRecord(entries, x) ==
    [i \in 1..Len(entries) |-> SummarizePost(entries[i])]

\* buildSummaryRequests: lastRecordBySession over the records whose text is
\* not blank, one request per session, from session x on
RECURSIVE buildSummaryRequests(_, _)
buildSummaryRequests(entries, x) ==
    IF x \notin SessionNames THEN <<>>
    ELSE LET mine == {i \in 1..Len(entries) :
                         /\ SessionOfEntry(entries[i]) = x
                         /\ Trim(TextOf(KindOfEntry(entries[i]))) # ""}
         IN  (IF mine = {} THEN <<>> ELSE <<SummarizePost(entries[MaxOf(mine)])>>)
                 \o buildSummaryRequests(entries, x + 1)

\* ingestSummaries unless --skip-summaries or nothing was ingested
SummaryPosts(entries) ==
    IF cliOptions.skipSummaries \/ Len(entries) = 0 THEN <<>>
    ELSE buildSummaryRequests(entries, 1)

\* a loop that goes on to the next record after a failure
OnRecordFailureContinue == "continue"

\* the catch block of the ingestion loop: stoppedAt = ...; break
OnRecordFailure == "break"

NoTranscripts ==
    /\ fileRecords = [f \in Files |-> <<>>]
    /\ sessionOf = [f \in Files |-> f]
    /\ cliOptions = DefaultOptions
    /\ stateFile = [f \in Files |-> 0]
    /\ checkpointState = [f \in Files |-> 0]
    /\ runPc = "idle"
    /\ limitOpt = [has |-> FALSE, n |-> 0]
    /\ selected = <<>>
    /\ cursor = 1
    /\ ingested = <<>>
    /\ stoppedAt = 0
    /\ posts = <<>>
    /\ runs = 0
    /\ thisRun = NoRun
    /\ prevRun = NoRun

\* if (options.dryRun) return
dryRunIgnored(dryRun) == FALSE
dryRunReturns(dryRun) == dryRun

\* runCodexHistoryIngestion up to its first POST: load the checkpoints, select
\* the records, return early when nothing is selected or the run is a dry run
StartRunSteps(hasLimit, n, since, dryRun) ==
    LET sel == SelectEntries(1, stateFile, hasLimit, n, since)
        all == SelectEntries(1, stateFile, FALSE, 0, since)
    IN  /\ runPc = "idle"
        /\ runs' = IF runs < MaxRuns THEN runs + 1 ELSE runs
        /\ checkpointState' = stateFile
        /\ limitOpt' = [has |-> hasLimit, n |-> n]
        /\ selected' = sel
        /\ cursor' = 1
        /\ ingested' = <<>>
        /\ stoppedAt' = 0
        /\ posts' = <<>>
        /\ prevRun' = thisRun
        /\ thisRun' = [truncated |-> sel # all, allIngested |-> FALSE, saved |-> FALSE]
        /\ runPc' = IF sel = <<>> \/ dryRunReturns(dryRun) THEN "idle" ELSE "ingesting"
        /\ UNCHANGED <<fileRecords, sessionOf, cliOptions, stateFile>>

StartRun(hasLimit, n) ==
    /\ runs < MaxRuns
    /\ StartRunSteps(hasLimit, n, NoSince, FALSE)
    /\ UNCHANGED outsideIngest

\* one pass of the ingestion loop: both POSTs of the record succeed, or one
\* of them fails after its retries
IngestRecordSteps(outcome) ==
    LET e == selected[cursor]
        goesOn == outcome = "ok" \/ OnRecordFailure = "continue"
    IN  /\ runPc = "ingesting"
        /\ PostsOfRecord(e, outcome) = <<>> => outcome = "ok"
        /\ posts' = posts \o PostsOfRecord(e, outcome)
        /\ ingested' = IF outcome = "ok" THEN Append(ingested, e) ELSE ingested
        /\ stoppedAt' = IF outcome = "ok" THEN stoppedAt ELSE cursor
        /\ cursor' = cursor + 1
        /\ runPc' = IF goesOn /\ cursor < Len(selected) THEN "ingesting" ELSE "finishing"
        /\ UNCHANGED <<fileRecords, sessionOf, cliOptions, stateFile, checkpointState,
                       limitOpt, selected, runs,
                       thisRun, prevRun>>

IngestRecord(outcome) == IngestRecordSteps(outcome) /\ UNCHANGED outsideIngest

\* after the loop: summaries of what was ingested, then the checkpoints are
\* saved if anything was ingested
FinishRunSteps ==
    /\ runPc = "finishing"
    /\ posts' = posts \o SummaryPosts(ingested)
    /\ stateFile' = IF Len(ingested) > 0
                    THEN updatedCheckpoints(checkpointState, ingested)
                    ELSE stateFile
    /\ thisRun' = [thisRun EXCEPT !.allIngested = (ingested = selected),
                                  !.saved = (Len(ingested) > 0)]
    /\ runPc' = "idle"
    /\ UNCHANGED <<fileRecords, sessionOf, cliOptions, checkpointState, limitOpt, selected,
                   cursor, ingested,
                   stoppedAt, runs, prevRun>>

FinishRun == FinishRunSteps /\ UNCHANGED outsideIngest

(***************************************************************************)
(* Memory session ids: ensureMemorySessionId of the agents                 *)
(***************************************************************************)
MaxAgentRuns == 3

\* sessions of the store; the content session id of session s is s
SessionIds == {1, 2}
AgentKinds == {"gemini", "codex", "ollama"}
NoMemoryId == [provider |-> "none", content |-> 0]
NoAgentRun == [session |-> 0, provider |-> "none"]

\* `${provider}-worker-${session.contentSessionId}`
SyntheticMemoryId(provider, contentSessionId) ==
    [provider |-> provider, content |-> contentSessionId]

\* SessionStore.updateMemorySessionId(sessionDbId, id)
updateMemorySessionId(db, s, id) == [db EXCEPT ![s] = id]

\* GeminiAgent.ensureMemorySessionId: keep the in-memory id, else reuse the
\* persisted one, else mint `gemini-worker-<contentSessionId>` and persist it
GeminiEnsureMemorySessionId(mem, db, s) ==
    IF mem[s] # NoMemoryId THEN [mem |-> mem, db |-> db]
    ELSE IF db[s] # NoMemoryId THEN [mem |-> [mem EXCEPT ![s] = db[s]], db |-> db]
    ELSE [mem |-> [mem EXCEPT ![s] = SyntheticMemoryId("gemini", s)],
          db |-> updateMemorySessionId(db, s, SyntheticMemoryId("gemini", s))]

\* CodexAgent.ensureMemorySessionId: keep the in-memory id, else mint
\* `codex-worker-<contentSessionId>` and persist it
CodexEnsureMemorySessionId(mem, db, s) ==
    IF mem[s] # NoMemoryId THEN [mem |-> mem, db |-> db]
    ELSE [mem |-> [mem EXCEPT ![s] = SyntheticMemoryId("codex", s)],
          db |-> updateMemorySessionId(db, s, SyntheticMemoryId("codex", s))]

\* OllamaAgent.startSession reads session.memorySessionId and never sets it
OllamaMemorySessionId(mem, db, s) == [mem |-> mem, db |-> db]

NoAgentRuns ==
    /\ memorySessionId = [s \in SessionIds |-> NoMemoryId]
    /\ persistedMemoryId = [s \in SessionIds |-> NoMemoryId]
    /\ agentRuns = 0
    /\ lastRun = NoAgentRun

RanSession(s, provider, r) ==
    /\ agentRuns < MaxAgentRuns
    /\ agentRuns' = agentRuns + 1
    /\ lastRun' = [session |-> s, provider |-> provider]
    /\ memorySessionId' = r.mem
    /\ persistedMemoryId' = r.db
    /\ UNCHANGED outsideMemory

\* GeminiAgent.startSession; when it hands over, the fallback's startSession
\* runs on the same session object
GeminiStartSession(s, handsOver) ==
    LET own == GeminiEnsureMemorySessionId(memorySessionId, persistedMemoryId, s)
    IN  RanSession(s, "gemini",
                   IF handsOver THEN CodexEnsureMemorySessionId(own.mem, own.db, s) ELSE own)

CodexStartSession(s) ==
    RanSession(s, "codex", CodexEnsureMemorySessionId(memorySessionId, persistedMemoryId, s))

OllamaStartSession(s) ==
    RanSession(s, "ollama", OllamaMemorySessionId(memorySessionId, persistedMemoryId, s))

\* the in-memory session object is dropped and created again without its
\* memory session id
RecreateSession(s) ==
    /\ memorySessionId[s] # NoMemoryId
    /\ memorySessionId' = [memorySessionId EXCEPT ![s] = NoMemoryId]
    /\ UNCHANGED <<persistedMemoryId, agentRuns, lastRun, outsideMemory>>

(***************************************************************************)
(* postJsonWithRetry                                                       *)
(***************************************************************************)
MaxAttempts == 3

BaseDelays == {5, 300}
StatusCodes == {200, 400, 404, 408, 425, 429, 500, 501, 502, 503, 504}
\* the body of a response: JSON, text that is not JSON, or a body whose read fails
Bodies == {"json", "garbage", "unreadable"}
NoFetch == [kind |-> "none", status |-> 0, body |-> "none"]
\* fetchFn resolves to a response, or rejects
FetchOutcomes ==
    [kind : {"response"}, status : StatusCodes, body : Bodies]
        \cup {[kind |-> "reject", status |-> 0, body |-> "none"]}

RETRYABLE_STATUS_CODES == {408, 425, 429, 500, 502, 503, 504}

\* a policy that retries whatever the status
shouldRetryAnyStatus(statusCode) == TRUE

shouldRetryStatus(statusCode) == statusCode \in RETRYABLE_STATUS_CODES

RECURSIVE Pow2(_)
Pow2(n) == IF n <= 0 THEN 1 ELSE 2 * Pow2(n - 1)

\* the same delay before every retry
calculateRetryDelayConstant(att, baseDelayMs) == baseDelayMs

\* baseDelayMs * Math.pow(2, Math.max(0, attempt - 1))
calculateRetryDelayMs(att, baseDelayMs) ==
    baseDelayMs * Pow2(IF att - 1 > 0 THEN att - 1 ELSE 0)

ResponseOk(status) == status \in 200..299

\* the catch block: errStatus is the status code the message of the error
\* starts with, 0 when it starts with none
RetryCatch(errStatus, att, maxAttempts) ==
    IF errStatus # 0 /\ ~shouldRetryStatus(errStatus) THEN "throw"
    ELSE IF att = maxAttempts THEN "throw"
    ELSE "retry"

\* the body of the loop for one outcome of fetchFn
AttemptDecision(o, att, maxAttempts) ==
    IF o.kind = "reject" THEN RetryCatch(0, att, maxAttempts)
    ELSE IF ~ResponseOk(o.status)
    THEN IF o.body = "unreadable" THEN RetryCatch(0, att, maxAttempts)
         ELSE IF ~shouldRetryStatus(o.status) \/ att = maxAttempts
         THEN RetryCatch(o.status, att, maxAttempts)
         ELSE "retry"
    ELSE IF o.body = "json" THEN "return"
    ELSE RetryCatch(0, att, maxAttempts)

RetryIdle ==
    /\ retryPolicy = [maxAttempts |-> 1, baseDelayMs |-> 5]
    /\ attempt = 1
    /\ retryPc = "returned"
    /\ fetchCalls = 0
    /\ sleepCalls = <<>>
    /\ lastFetch = NoFetch

\* one pass of the loop up to its return, its throw or its call of sleepFn
FetchAttempt(o) ==
    LET d == AttemptDecision(o, attempt, retryPolicy.maxAttempts)
    IN  /\ retryPc = "fetch"
        /\ attempt <= retryPolicy.maxAttempts
        /\ fetchCalls' = fetchCalls + 1
        /\ lastFetch' = o
        /\ retryPc' = IF d = "return" THEN "returned"
                      ELSE IF d = "throw" THEN "thrown" ELSE "sleeping"
        /\ sleepCalls' = IF d = "retry"
                         THEN Append(sleepCalls,
                                     calculateRetryDelayMs(attempt, retryPolicy.baseDelayMs))
                         ELSE sleepCalls
        /\ UNCHANGED <<retryPolicy, attempt, outsideRetry>>

\* sleepFn resolves: attempt++
SleepDone ==
    /\ retryPc = "sleeping"
    /\ attempt' = attempt + 1
    /\ retryPc' = "fetch"
    /\ UNCHANGED <<retryPolicy, fetchCalls, sleepCalls, lastFetch, outsideRetry>>

(***************************************************************************)
(* The checkpoint state file: load with legacy migration, save             *)
(***************************************************************************)
MaxCheckpoint == 2

\* stands for a value that is not a non-negative integer, and for null
InvalidValue == -1
RawValues == {InvalidValue} \cup (0..MaxCheckpoint)
\* maps from some of the history paths to values
PartialMaps(values) == UNION {[S -> values] : S \in SUBSET Files}
EmptyMap == [f \in {} |-> 0]
NoStateFile ==
    [exists |-> FALSE, fileCheckpoints |-> EmptyMap, historyPath |-> 0,
     lastProcessedLineNumber |-> 0]

\* the state files: none; or a file with a fileCheckpoints object and, when
\* historyPath is not 0, the legacy fields historyPath and
\* lastProcessedLineNumber
StateFiles ==
    {NoStateFile} \cup
    {[exists |-> TRUE, fileCheckpoints |-> m, historyPath |-> h,
      lastProcessedLineNumber |-> n] :
        m \in PartialMaps(RawValues), h \in Files \cup {0}, n \in 0..MaxCheckpoint}

normalizeCheckpointValue(value) == IF value >= 0 THEN value ELSE InvalidValue

\* the entries of parsed.fileCheckpoints whose value is a checkpoint
ValidEntries(m) ==
    [f \in {g \in DOMAIN m : normalizeCheckpointValue(m[g]) # InvalidValue} |-> m[f]]

\* a loader that reads the fileCheckpoints object only
loadCheckpointStateWithoutMigration(file) ==
    IF ~file.exists THEN EmptyMap ELSE ValidEntries(file.fileCheckpoints)

\* loadCodexIngestionCheckpointState(stateFilePath).fileCheckpoints
loadCodexIngestionCheckpointState(file) ==
    IF ~file.exists THEN EmptyMap
    ELSE LET fromMap == ValidEntries(file.fileCheckpoints)
             migrate == /\ file.historyPath # 0
                        /\ normalizeCheckpointValue(file.lastProcessedLineNumber) # InvalidValue
         IN  IF migrate
             THEN [f \in DOMAIN fromMap \cup {file.historyPath} |->
                      IF f = file.historyPath
                      THEN normalizeCheckpointValue(file.lastProcessedLineNumber)
                      ELSE fromMap[f]]
             ELSE fromMap

NotLoaded ==
    /\ checkpointFile = NoStateFile
    /\ loadedCheckpoints = EmptyMap
    /\ loadPc = "unloaded"

LoadCheckpointState ==
    /\ loadPc = "unloaded"
    /\ loadedCheckpoints' = loadCodexIngestionCheckpointState(checkpointFile)
    /\ loadPc' = "loaded"
    /\ UNCHANGED <<checkpointFile, outsideLoad>>

\* saveCodexIngestionCheckpointState as the run calls it: the loaded map with
\* the line of the last ingested record, and the same record as legacy mirror
SaveCheckpointState(f, line) ==
    /\ loadPc = "loaded"
    /\ checkpointFile' =
           [exists |-> TRUE,
            fileCheckpoints |-> [g \in DOMAIN loadedCheckpoints \cup {f} |->
                                    IF g = f THEN line ELSE loadedCheckpoints[g]],
            historyPath |-> f,
            lastProcessedLineNumber |-> line]
    /\ loadPc' = "unloaded"
    /\ UNCHANGED <<loadedCheckpoints, outsideLoad>>

(***************************************************************************)
(* GeminiAgent.queryGeminiMultiTurn: rate limiter and fallback model       *)
(***************************************************************************)
MaxRequests == 2
MaxTicks == 2

\* sessions whose agents run in the one worker process
QuerySessions == {1, 2}
GeminiModels == {"gemini-3-flash", "gemini-2.5-flash", "gemini-2.5-pro"}
GEMINI_RPM_LIMITS == [m \in GeminiModels |-> IF m = "gemini-2.5-flash" THEN 10 ELSE 5]
FallbackModel == "gemini-2.5-flash"
\* response.status; 0 stands for a fetch that rejects
ResponseStatuses == {0, 200, 400, 404, 500}
\* the step of the clock
TickMs == 6100
\* the process has been up for a while when the first query is made
StartMs == 2 * TickMs
NoRequests == <<>>

CeilDiv(a, b) == (a + b - 1) \div b
minimumDelayMs(model) == CeilDiv(60000, GEMINI_RPM_LIMITS[model]) + 100

\* the fetch that follows the rate limiter
SendRequest(s, model) ==
    /\ requests' = Append(requests, [model |-> model, at |-> dateNow])
    /\ qPc' = [qPc EXCEPT ![s] = "fetching"]

\* enforceRateLimitForModel up to its await, or to its end when it does not wait
enforceRateLimitForModel(s, model) ==
    IF ~rateLimitingEnabled
    THEN SendRequest(s, model) /\ UNCHANGED <<lastRequestTime, qWake>>
    ELSE IF dateNow - lastRequestTime < minimumDelayMs(model)
         THEN /\ qPc' = [qPc EXCEPT ![s] = "waiting"]
              /\ qWake' = [qWake EXCEPT ![s] =
                              dateNow + (minimumDelayMs(model) - (dateNow - lastRequestTime))]
              /\ UNCHANGED <<lastRequestTime, requests>>
         ELSE /\ lastRequestTime' = dateNow
              /\ SendRequest(s, model)
              /\ UNCHANGED qWake

\* a retry on a rejected model whatever the model is
retryRejectedModel(status, model) == status \in {400, 404}

\* the condition of the retry with the fallback model
retryWithFallbackModel(status, model) ==
    status \in {400, 404} /\ model = "gemini-3-flash"

QueryIdle ==
    /\ rateLimitingEnabled = TRUE
    /\ dateNow = StartMs
    /\ lastRequestTime = 0
    /\ qPc = [s \in QuerySessions |-> "idle"]
    /\ qModel = [s \in QuerySessions |-> FallbackModel]
    /\ qWake = [s \in QuerySessions |-> 0]
    /\ qFetches = [s \in QuerySessions |-> <<>>]
    /\ requests = NoRequests

\* a session's agent calls queryGeminiMultiTurn(history, apiKey, model, ...)
StartQuery(s, model) ==
    /\ qPc[s] \in {"idle", "returned", "thrown"}
    /\ Len(requests) < MaxRequests
    /\ qModel' = [qModel EXCEPT ![s] = model]
    /\ qFetches' = [qFetches EXCEPT ![s] = <<>>]
    /\ enforceRateLimitForModel(s, model)
    /\ UNCHANGED <<rateLimitingEnabled, dateNow, outsideQuery>>

\* the timer of the rate limiter fires: lastRequestTime = Date.now(), then the fetch
TimerFires(s) ==
    /\ qPc[s] = "waiting"
    /\ dateNow >= qWake[s]
    /\ lastRequestTime' = dateNow
    /\ SendRequest(s, qModel[s])
    /\ UNCHANGED <<rateLimitingEnabled, dateNow, qModel, qWake, qFetches, outsideQuery>>

\* the fetch settles: return, throw, or call again with the fallback model
FetchResponse(s, status) ==
    /\ qPc[s] = "fetching"
    /\ qFetches' = [qFetches EXCEPT ![s] =
                       Append(@, [model |-> qModel[s], status |-> status])]
    /\ IF status = 200
       THEN /\ qPc' = [qPc EXCEPT ![s] = "returned"]
            /\ UNCHANGED <<lastRequestTime, qModel, qWake, requests>>
       ELSE IF status # 0 /\ retryWithFallbackModel(status, qModel[s])
            THEN /\ qModel' = [qModel EXCEPT ![s] = FallbackModel]
                 /\ enforceRateLimitForModel(s, FallbackModel)
            ELSE /\ qPc' = [qPc EXCEPT ![s] = "thrown"]
                 /\ UNCHANGED <<lastRequestTime, qModel, qWake, requests>>
    /\ UNCHANGED <<rateLimitingEnabled, dateNow, outsideQuery>>

\* time passes
Tick ==
    /\ dateNow < StartMs + MaxTicks * TickMs
    /\ dateNow' = dateNow + TickMs
    /\ UNCHANGED <<rateLimitingEnabled, lastRequestTime, qPc, qModel, qWake, qFetches,
                   requests, outsideQuery>>

(***************************************************************************)
(* The stdio bridge (MCP search server): tools and calls of the worker     *)
(***************************************************************************)
MaxToolCalls == 2

WORKER_HEALTH_CHECK_TIMEOUT_MS == 1500
WORKER_STARTUP_WAIT_TIMEOUT_MS == 35000
WORKER_STARTUP_POLL_INTERVAL_MS == 500

\* the three tools that wrap a worker endpoint
toolsOfTheWorker == <<"search", "timeline", "get_observations">>

\* tools.map(tool => tool.name)
tools == <<"__IMPORTANT", "search", "timeline", "get_observations">>

\* request.params.name of a tools/call request
RequestedNames == {"__IMPORTANT", "search", "timeline", "get_observations", "help"}
ToolNames(list) == {list[i] : i \in 1..Len(list)}

\* the worker request a tool's handler makes
TOOL_ENDPOINT_MAP == [n \in {"search", "timeline"} |->
                         IF n = "search" THEN "/api/search" ELSE "/api/timeline"]
WorkerRequestOf(name) ==
    IF name = "get_observations"
    THEN [method |-> "POST", endpoint |-> "/api/observations/batch"]
    ELSE [method |-> "GET", endpoint |-> TOOL_ENDPOINT_MAP[name]]

\* how a fetch of the worker ends, and how long a health check takes
WorkerFetchOutcomes == {"ok", "http-error", "unreachable"}
HealthCheckDurations == {0, WORKER_HEALTH_CHECK_TIMEOUT_MS}

BridgeIdle ==
    /\ workerUp = TRUE
    /\ bPc = "idle"
    /\ bPhase = 1
    /\ bTool = "none"
    /\ bRequests = <<>>
    /\ bStarts = 0
    /\ bElapsed = 0
    /\ bFirst = "none"
    /\ bEnsure = "none"
    /\ bResult = "none"
    /\ toolListing = <<>>
    /\ toolCalls = 0

\* the retry goes ahead whatever ensureWorkerAvailable answered
retryAlways(recovered) == TRUE

\* if (!recovered) throw firstRequestError
retryAllowed(recovered) == recovered

\* ensureWorkerAvailable returns to callWorkerAPI / callWorkerAPIPost
EnsureReturns(available) ==
    IF bPhase = 1
    THEN /\ bEnsure' = bEnsure
         /\ IF available
            THEN bPc' = "fetch" /\ bResult' = bResult
            ELSE bPc' = "done" /\ bResult' = "unavailable"
    ELSE /\ bEnsure' = IF available THEN "healthy" ELSE "failed"
         /\ IF retryAllowed(available)
            THEN bPc' = "fetch" /\ bResult' = bResult
            ELSE bPc' = "done" /\ bResult' = "error"

\* the tools/list handler
ListTools ==
    /\ toolListing' = tools
    /\ UNCHANGED <<workerUp, bPc, bPhase, bTool, bRequests, bStarts, bElapsed, bFirst,
                   bEnsure, bResult, toolCalls, outsideBridge>>

\* the tools/call handler up to the first await of the tool's handler
CallTool(name) ==
    /\ bPc \in {"idle", "done"}
    /\ toolCalls < MaxToolCalls
    /\ toolCalls' = toolCalls + 1
    /\ bTool' = name
    /\ bRequests' = <<>>
    /\ bStarts' = 0
    /\ bElapsed' = 0
    /\ bFirst' = "none"
    /\ bEnsure' = "none"
    /\ bPhase' = 1
    /\ IF name \notin ToolNames(tools)
       THEN bPc' = "done" /\ bResult' = "unknown-tool"
       ELSE IF name = "__IMPORTANT"
            THEN bPc' = "done" /\ bResult' = "static-text"
            ELSE bPc' = "verify" /\ bResult' = "none"
    /\ UNCHANGED <<workerUp, toolListing, outsideBridge>>

\* ensureWorkerAvailable: verifyWorkerConnection, then startWorkerViaCli
VerifyWorker(healthy, started) ==
    /\ bPc = "verify"
    /\ healthy => workerUp
    /\ IF healthy
       THEN /\ EnsureReturns(TRUE)
            /\ UNCHANGED <<bStarts, bElapsed>>
       ELSE /\ bStarts' = bStarts + 1
            /\ bElapsed' = 0
            /\ IF started
               THEN bPc' = "polling" /\ UNCHANGED <<bEnsure, bResult>>
               ELSE EnsureReturns(FALSE)
    /\ UNCHANGED <<workerUp, bPhase, bTool, bRequests, bFirst, toolListing, toolCalls,
                   outsideBridge>>

\* waitForWorkerConnection: one pass of its loop, or its end at the deadline
PollHealth(healthy, duration) ==
    /\ bPc = "polling"
    /\ healthy => workerUp
    /\ IF bElapsed >= WORKER_STARTUP_WAIT_TIMEOUT_MS
       THEN EnsureReturns(FALSE) /\ UNCHANGED bElapsed
       ELSE IF healthy
            THEN EnsureReturns(TRUE) /\ bElapsed' = bElapsed + duration
            ELSE /\ bElapsed' = bElapsed + duration + WORKER_STARTUP_POLL_INTERVAL_MS
                 /\ UNCHANGED <<bPc, bEnsure, bResult>>
    /\ UNCHANGED <<workerUp, bPhase, bTool, bRequests, bStarts, bFirst, toolListing,
                   toolCalls, outsideBridge>>

\* fetch(url) of callWorkerAPI / callWorkerAPIPost and what follows it
FetchWorker(outcome) ==
    /\ bPc = "fetch"
    /\ ~workerUp => outcome = "unreachable"
    /\ bRequests' = Append(bRequests, WorkerRequestOf(bTool))
    /\ IF bPhase = 1
       THEN /\ bFirst' = outcome
            /\ IF outcome = "unreachable"
               THEN /\ bPc' = "verify"
                    /\ bPhase' = 2
                    /\ bResult' = bResult
                    /\ bStarts' = 0
                    /\ bElapsed' = 0
               ELSE /\ bPc' = "done"
                    /\ bPhase' = bPhase
                    /\ bResult' = IF outcome = "ok" THEN "content" ELSE "error"
                    /\ UNCHANGED <<bStarts, bElapsed>>
       ELSE /\ bFirst' = bFirst
            /\ bPc' = "done"
            /\ bPhase' = bPhase
            /\ bResult' = IF outcome = "ok" THEN "content" ELSE "error"
            /\ UNCHANGED <<bStarts, bElapsed>>
    /\ UNCHANGED <<workerUp, bTool, bEnsure, toolListing, toolCalls, outsideBridge>>

\* the worker process stops, or comes up
WorkerChanges ==
    /\ workerUp' = ~workerUp
    /\ UNCHANGED <<bPc, bPhase, bTool, bRequests, bStarts, bElapsed, bFirst, bEnsure,
                   bResult, toolListing, toolCalls, outsideBridge>>

(***************************************************************************)
(* SettingsDefaultsManager: loadFromFile and the environment overrides     *)
(***************************************************************************)
MaxLoads == 2

Undefined == "undefined"
\* two of the keys of DEFAULTS: one with the CLAUDE_MEM_ prefix, and CLAUDE_CODE_PATH
SettingKeys == {"CLAUDE_MEM_PROVIDER", "CLAUDE_CODE_PATH"}
\* `CODEX_MEM_${key.slice('CLAUDE_MEM_'.length)}`, and the alias CODEX_CODE_PATH
CanonicalKey(key) ==
    IF key = "CLAUDE_CODE_PATH" THEN "CODEX_CODE_PATH" ELSE "CODEX_MEM_PROVIDER"
EnvNames == SettingKeys \cup {CanonicalKey(k) : k \in SettingKeys}
EnvValues == {"env-a", "env-b"}
DEFAULTS == [k \in SettingKeys |-> "default"]
FileMaps == [SettingKeys -> {Undefined, "file-value"}]
\* the settings file: missing, not parseable, flat, or nested under "env"
SettingsFiles ==
    {[kind |-> k, values |-> DEFAULTS] : k \in {"missing", "corrupt"}} \cup
    {[kind |-> k, values |-> m] : k \in {"flat", "nested"}, m \in FileMaps}

\* flatSettings[key] of a file that was read and parsed
FileValue(file, key) ==
    IF file.kind \in {"flat", "nested"} THEN file.values[key] ELSE Undefined

\* the merge of the file with the defaults, or the defaults alone
SettingsOfFile(file) ==
    [k \in SettingKeys |->
        IF FileValue(file, k) # Undefined THEN FileValue(file, k) ELSE DEFAULTS[k]]

\* the overrides with the legacy variable applied last
applyEnvironmentOverridesLegacyLast(settings, env) ==
    [k \in SettingKeys |->
        LET afterCanonical == IF env[CanonicalKey(k)] # Undefined
                              THEN env[CanonicalKey(k)] ELSE settings[k]
        IN  IF env[k] # Undefined THEN env[k] ELSE afterCanonical]

\* applyEnvironmentOverrides(settings): the legacy variable, then the canonical one
applyEnvironmentOverrides(settings, env) ==
    [k \in SettingKeys |->
        LET afterLegacy == IF env[k] # Undefined THEN env[k] ELSE settings[k]
        IN  IF env[CanonicalKey(k)] # Undefined THEN env[CanonicalKey(k)] ELSE afterLegacy]

\* a warning at every call
warnLegacyEnvKeyEveryTime(warned, legacyKey) == TRUE

\* warnLegacyEnvKeyOnce: whether console.warn is called
warnLegacyEnvKeyOnce(warned, legacyKey) == legacyKey \notin warned

\* the legacy keys applyEnvironmentOverrides calls warnLegacyEnvKeyOnce for
LegacyKeysSet(env) == {k \in SettingKeys : env[k] # Undefined}

SettingsIdle ==
    /\ processEnv = [n \in EnvNames |-> Undefined]
    /\ settingsFile = [kind |-> "missing", values |-> DEFAULTS]
    /\ warnedDeprecationKeys = {}
    /\ warnings = [k \in SettingKeys |-> 0]
    /\ loads = 0
    /\ loadedSettings = DEFAULTS
    /\ settingsLoaded = FALSE

\* SettingsDefaultsManager.loadFromFile(settingsPath)
LoadFromFile(writeOk) ==
    /\ loads < MaxLoads
    /\ loads' = loads + 1
    /\ settingsFile' =
           IF ~writeOk THEN settingsFile
           ELSE IF settingsFile.kind = "missing" THEN [kind |-> "flat", values |-> DEFAULTS]
           ELSE IF settingsFile.kind = "nested"
                THEN [kind |-> "flat", values |-> settingsFile.values]
           ELSE settingsFile
    /\ loadedSettings' = applyEnvironmentOverrides(SettingsOfFile(settingsFile), processEnv)
    /\ warnings' = [k \in SettingKeys |->
                       IF k \in LegacyKeysSet(processEnv)
                          /\ warnLegacyEnvKeyOnce(warnedDeprecationKeys, k)
                       THEN warnings[k] + 1 ELSE warnings[k]]
    /\ warnedDeprecationKeys' = warnedDeprecationKeys \cup LegacyKeysSet(processEnv)
    /\ settingsLoaded' = TRUE
    /\ UNCHANGED <<processEnv, outsideSettings>>

\* the process sets or deletes an environment variable
SetEnv(name, value) ==
    /\ processEnv[name] # value
    /\ processEnv' = [processEnv EXCEPT ![name] = value]
    /\ settingsLoaded' = FALSE
    /\ UNCHANGED <<settingsFile, warnedDeprecationKeys, warnings, loads, loadedSettings,
                   outsideSettings>>

(***************************************************************************)
(* runDataDirMigration: copy of the legacy data directory                  *)
(***************************************************************************)
MaxMigrations == 2

\* relative paths of files, and what a file holds
RelativePaths == {"settings.json", "logs/worker.log"}
Absent == "absent"
LegacyContent == "written-by-legacy"
CanonicalContent == "written-by-canonical"
NoFiles == [p \in RelativePaths |-> Absent]
NoDirectory == [exists |-> FALSE, files |-> NoFiles]
\* a directory that exists, with some of the files, all of one content
Directories(written) ==
    {[exists |-> TRUE, files |-> f] : f \in [RelativePaths -> {Absent, written}]}
MigrationOptions == [dryRun : BOOLEAN, overwrite : BOOLEAN, force : BOOLEAN]
NoOptions == [dryRun |-> FALSE, overwrite |-> FALSE, force |-> FALSE]
NoResult == [status |-> "none", copiedFiles |-> 0, skippedFiles |-> 0,
             skippedDueToExisting |-> {}]
Skipped == [status |-> "skipped", copiedFiles |-> 0, skippedFiles |-> 0,
            skippedDueToExisting |-> {}]

\* listFilesRecursively(legacyDirPath)
listFilesRecursively(dir) == {p \in RelativePaths : dir.files[p] # Absent}

\* a migration that ignores the lock file
lockIgnored(lockExists, force) == FALSE

\* existsSync(lockFilePath) && !force
lockBlocks(lockExists, force) == lockExists /\ ~force

\* a migration that copies over every existing file
existingNeverSkipped(targetExists, overwrite) == FALSE

\* targetExists && !overwrite
existingSkipped(targetExists, overwrite) == targetExists /\ ~overwrite

\* a migration that writes in a dry run too
writesAlways(dryRun) == TRUE

\* if (!dryRun) before mkdirSync, copyFileSync and writeMigrationMetadata
writesFiles(dryRun) == ~dryRun

\* the files of the legacy directory the loop skips, and those it copies
SkippedDueToExisting(options) ==
    {p \in listFilesRecursively(legacyDir) :
        existingSkipped(canonicalDir.files[p] # Absent, options.overwrite)}
Copied(options) == listFilesRecursively(legacyDir) \ SkippedDueToExisting(options)

MigrationIdle ==
    /\ legacyDir = NoDirectory
    /\ canonicalDir = NoDirectory
    /\ lockFile = 0
    /\ reportFile = 0
    /\ migrationRuns = 0
    /\ migrationOptions = NoOptions
    /\ migrationResult = NoResult
    /\ fsBefore = [canonicalDir |-> NoDirectory, lockFile |-> 0, reportFile |-> 0]
    /\ migrationJustRan = FALSE

\* runDataDirMigration(options)
RunDataDirMigration(options) ==
    /\ migrationRuns < MaxMigrations
    /\ migrationRuns' = migrationRuns + 1
    /\ migrationOptions' = options
    /\ migrationJustRan' = TRUE
    /\ fsBefore' = [canonicalDir |-> canonicalDir, lockFile |-> lockFile,
                    reportFile |-> reportFile]
    /\ IF ~legacyDir.exists \/ lockBlocks(lockFile # 0, options.force)
       THEN /\ migrationResult' = Skipped
            /\ UNCHANGED <<canonicalDir, lockFile, reportFile>>
       ELSE /\ migrationResult' =
                   [status |-> IF options.dryRun THEN "dry-run" ELSE "completed",
                    copiedFiles |-> Cardinality(Copied(options)),
                    skippedFiles |-> Cardinality(SkippedDueToExisting(options)),
                    skippedDueToExisting |-> SkippedDueToExisting(options)]
            /\ IF writesFiles(options.dryRun)
               THEN /\ canonicalDir' =
                           [exists |-> TRUE,
                            files |-> [p \in RelativePaths |->
                                          IF p \in Copied(options) THEN legacyDir.files[p]
                                          ELSE canonicalDir.files[p]]]
                    /\ lockFile' = migrationRuns + 1
                    /\ reportFile' = migrationRuns + 1
               ELSE UNCHANGED <<canonicalDir, lockFile, reportFile>>
    /\ UNCHANGED <<legacyDir, outsideMigration>>

\* the legacy or the canonical product writes a file of its data directory
WriteDataFile(canonical, p) ==
    /\ IF canonical
       THEN /\ canonicalDir.files[p] # CanonicalContent
            /\ canonicalDir' = [exists |-> TRUE,
                                files |-> [canonicalDir.files EXCEPT ![p] = CanonicalContent]]
            /\ UNCHANGED legacyDir
       ELSE /\ legacyDir.files[p] = Absent
            /\ legacyDir' = [exists |-> TRUE,
                             files |-> [legacyDir.files EXCEPT ![p] = LegacyContent]]
            /\ UNCHANGED canonicalDir
    /\ migrationJustRan' = FALSE
    /\ UNCHANGED <<lockFile, reportFile, migrationRuns, migrationOptions, migrationResult,
                   fsBefore, outsideMigration>>

(***************************************************************************)
(* tag-stripping: stripTagsInternal                                        *)
(***************************************************************************)
MaxTextLen == 5

\* a text is a sequence of these pieces; "<pri" followed by "vate>" reads
\* "<private>" as the piece "<private>" does
TextPieces ==
    {"<pri", "vate>", "<private>", "</private>",
     "<codex-mem-context>", "</codex-mem-context>",
     "<claude-mem-context>", "</claude-mem-context>", "a", " "}
Texts == UNION {[1..n -> TextPieces] : n \in 0..MaxTextLen}
\* the wrappers in the order stripTagsInternal removes them
Wrappers ==
    <<[open |-> "<codex-mem-context>", close |-> "</codex-mem-context>"],
      [open |-> "<claude-mem-context>", close |-> "</claude-mem-context>"],
      [open |-> "<private>", close |-> "</private>"]>>

\* the number of pieces the opening tag takes when it starts at piece i, 0 if
\* it does not start there
OpenLenAt(text, i, open) ==
    IF text[i] = open THEN 1
    ELSE IF open = "<private>" /\ text[i] = "<pri" /\ i < Len(text) /\ text[i + 1] = "vate>"
         THEN 2
         ELSE 0

\* the closing tags that can end a match whose opening tag starts at piece i
ClosesAfter(text, i, w) ==
    {j \in (i + OpenLenAt(text, i, w.open))..Len(text) : text[j] = w.close}
FirstOf(S) == CHOOSE j \in S : \A k \in S : j <= k

\* content.replace(/<tag>[\s\S]*?<\/tag>/g, '') from piece i on: matches are
\* found left to right in the text as it was, each up to the first closing tag
RECURSIVE ReplaceFrom(_, _, _)
ReplaceFrom(text, i, w) ==
    LET starts == {j \in i..Len(text) :
                      OpenLenAt(text, j, w.open) > 0 /\ ClosesAfter(text, j, w) # {}}
    IN  IF starts = {} THEN SubSeq(text, i, Len(text))
        ELSE SubSeq(text, i, FirstOf(starts) - 1)
                 \o ReplaceFrom(text, FirstOf(ClosesAfter(text, FirstOf(starts), w)) + 1, w)

\* String.prototype.trim
RECURSIVE TrimText(_)
TrimText(text) ==
    IF text = <<>> THEN text
    ELSE IF Head(text) = " " THEN TrimText(Tail(text))
    ELSE IF text[Len(text)] = " " THEN TrimText(SubSeq(text, 1, Len(text) - 1))
    ELSE text

\* only the context wrappers are removed
stripContextTagsOnly(text) ==
    TrimText(ReplaceFrom(ReplaceFrom(text, 1, Wrappers[1]), 1, Wrappers[2]))

\* stripTagsInternal(content)
stripTagsInternal(text) ==
    TrimText(ReplaceFrom(ReplaceFrom(ReplaceFrom(text, 1, Wrappers[1]), 1, Wrappers[2]),
                         1, Wrappers[3]))

\* the limit stripTagsInternal compares the number of opening tags with
MAX_TAG_COUNT == 100
MaxTags == 101

\* countTags(content): the opening tags of the three kinds
countTags(text) ==
    Cardinality({<<k, i>> \in (1..Len(Wrappers)) \X (1..Len(text)) :
                    OpenLenAt(text, i, Wrappers[k].open) > 0})

\* a payload of n opening tags of one kind, one closing tag and a tail
ManyTags(k, n, tail) ==
    [i \in 1..n |-> Wrappers[k].open] \o <<Wrappers[k].close>> \o tail
LargeTexts ==
    {ManyTags(k, n, tail) : k \in 1..Len(Wrappers), n \in 0..MaxTags,
                            tail \in {<<>>, <<"a">>}}

\* the text holds a complete wrapper: an opening tag and a closing tag after it
HasWrapper(text) ==
    \E k \in 1..Len(Wrappers), i \in 1..Len(text) :
        OpenLenAt(text, i, Wrappers[k].open) > 0 /\ ClosesAfter(text, i, Wrappers[k]) # {}

StripIdle ==
    /\ content = <<>>
    /\ stripped = <<>>
    /\ strippedAgain = <<>>
    /\ stripPc = "input"

\* stripMemoryTagsFromPrompt(content) / stripMemoryTagsFromJson(content)
StripMemoryTags ==
    /\ stripPc = "input"
    /\ stripped' = stripTagsInternal(content)
    /\ stripPc' = "stripped"
    /\ UNCHANGED <<content, strippedAgain, outsideStrip>>

\* the same function applied to its own result
StripMemoryTagsAgain ==
    /\ stripPc = "stripped"
    /\ strippedAgain' = stripTagsInternal(stripped)
    /\ stripPc' = "stripped-again"
    /\ UNCHANGED <<content, stripped, outsideStrip>>

(***************************************************************************)
(* The worker's POST /sessions/init, as the specification describes it     *)
(***************************************************************************)
MaxPromptLen == 3
MaxInits == 2

PromptTexts == UNION {[1..n -> TextPieces] : n \in 0..MaxPromptLen}
Platforms == {"transcript", "claude-code", "codex"}
NoResponse == [skipped |-> FALSE, reason |-> "unanswered"]

SessionInitIdle ==
    /\ initRequests = 0
    /\ initPrompt = <<>>
    /\ initPlatform = "transcript"
    /\ initResponse = NoResponse
    /\ userPromptCount = 0
    /\ savedPromptText = <<>>
    /\ newPromptEvents = 0

\* POST /sessions/init {contentSessionId, project, prompt, platform}
SessionsInit(platform) ==
    /\ initRequests < MaxInits
    /\ initRequests' = initRequests + 1
    /\ initPlatform' = platform
    /\ IF stripTagsInternal(initPrompt) = <<>>
       THEN /\ initResponse' = [skipped |-> TRUE, reason |-> "private"]
            /\ UNCHANGED <<userPromptCount, savedPromptText, newPromptEvents>>
       ELSE /\ initResponse' = [skipped |-> FALSE, reason |-> "none"]
            /\ userPromptCount' = userPromptCount + 1
            /\ savedPromptText' = stripTagsInternal(initPrompt)
            /\ newPromptEvents' = IF platform = "claude-code" THEN newPromptEvents
                                  ELSE newPromptEvents + 1
    /\ UNCHANGED <<initPrompt, outsideSessionInit>>

(***************************************************************************)
(* Prompt search, as the specification describes it                        *)
(***************************************************************************)
MaxPrompts == 2
MaxSearches == 2

PromptWords == {"PLAYWRIGHT", "other"}
Projects == {"codex-mem", "project-beta"}
PromptRowValues == [text : PromptWords, project : Projects]
NoAnswer == [down |-> FALSE, ids |-> {}]
NoSearch == [rows |-> {}, source |-> "none"]

\* Store.searchUserPrompts(text, filter): the rows whose text matches, of the project
fullTextSearch(query, project) ==
    {i \in 1..Len(promptRows) :
        promptRows[i].text = query /\ promptRows[i].project = project}

\* the vector result is left aside: the backend is down or it has no hit
neverFallsBack(answer) == FALSE
fallsBackToFullText(answer) == answer.down \/ answer.ids = {}

\* what the vector backend can give a query
VectorAnswers ==
    IF vectorUp THEN {[down |-> FALSE, ids |-> h] : h \in SUBSET promptVectors}
    ELSE {[down |-> TRUE, ids |-> {}]}

SearchIdle ==
    /\ promptRows = <<>>
    /\ promptVectors = {}
    /\ vectorUp = TRUE
    /\ searches = 0
    /\ searchArgs = [query |-> "other", project |-> "codex-mem"]
    /\ vectorAnswer = NoAnswer
    /\ searchResult = NoSearch

\* a prompt is stored; the vector index is synced with it or is not
SavePrompt(row, synced) ==
    /\ Len(promptRows) < MaxPrompts
    /\ promptRows' = Append(promptRows, row)
    /\ promptVectors' = IF synced /\ vectorUp THEN promptVectors \cup {Len(promptRows) + 1}
                        ELSE promptVectors
    /\ UNCHANGED <<vectorUp, searches, searchArgs, vectorAnswer, searchResult, outsideSearch>>

\* the vector backend goes down or comes back
VectorBackendChanges ==
    /\ vectorUp' = ~vectorUp
    /\ UNCHANGED <<promptRows, promptVectors, searches, searchArgs, vectorAnswer,
                   searchResult, outsideSearch>>

\* searchUserPrompts({query, project}): the vector index first, the store's
\* full-text search when it gives nothing
SearchUserPrompts(query, project, answer) ==
    /\ searches < MaxSearches
    /\ answer \in VectorAnswers
    /\ searches' = searches + 1
    /\ searchArgs' = [query |-> query, project |-> project]
    /\ vectorAnswer' = answer
    /\ searchResult' =
          IF fallsBackToFullText(answer)
          THEN [rows |-> fullTextSearch(query, project), source |-> "sqlite"]
          ELSE [rows |-> {i \in answer.ids : promptRows[i].project = project},
                source |-> "vector"]
    /\ UNCHANGED <<promptRows, promptVectors, vectorUp, outsideSearch>>

(***************************************************************************)
(* CodexAppInstaller: install and uninstall                                *)
(***************************************************************************)
MaxConfigLines == 3
MaxInstallerOps == 3

MANAGED_BLOCK_START == "# >>> codex-mem managed codex-app integration >>>"
MANAGED_BLOCK_END == "# <<< codex-mem managed codex-app integration <<<"
CODEX_NOTIFY_EVENT == "agent-turn-complete"

\* a line of config.toml: its key, the form of its value and the strings in it
KeyLine(key, form, value) == [key |-> key, form |-> form, value |-> value]
Blank == KeyLine("", "blank", <<>>)
CommentLine(text) == KeyLine("#", "comment", <<text>>)
TableHeader == KeyLine("[projects.\"/tmp/example\"]", "table", <<>>)
IsBlankOrComment(line) == line.form \in {"blank", "comment"}

\* the lines a user writes above the first table
UserLines ==
    {KeyLine("model", "string", <<"gpt-5">>),
     CommentLine("# my settings"),
     Blank,
     KeyLine("notifications", "array", <<"session-start">>),
     KeyLine("notify", "string", <<"echo old-notify">>),
     KeyLine("notify", "array", <<"python3", "notify.py">>)}
UserTables ==
    {<<>>, <<TableHeader, KeyLine("trust_level", "string", <<"trusted">>),
             KeyLine("notify", "string", <<"of the table">>)>>}
\* no key twice above the first table
ValidTopLevel(top) ==
    \A i, j \in 1..Len(top) :
        (i # j /\ ~IsBlankOrComment(top[i])) => top[i].key # top[j].key
UserConfigs ==
    {[exists |-> FALSE, lines |-> <<>>]} \cup
    {[exists |-> TRUE, lines |-> top \o tables \o ending] :
        top \in {t \in UNION {[1..n -> UserLines] : n \in 0..MaxConfigLines} :
                    ValidTopLevel(t)},
        tables \in UserTables, ending \in {<<>>, <<Blank>>}}
NoInstallState ==
    [present |-> FALSE, hadNotifications |-> FALSE, hadNotify |-> FALSE,
     previousNotifications |-> <<>>, previousNotifyCommand |-> <<>>]

\* readCodexConfig(): the lines of the file, one empty line when there is no file
readCodexConfig == IF configFile.exists THEN configFile.lines ELSE <<Blank>>

\* content.trim().length > 0
HasText(lines) == \E i \in 1..Len(lines) : lines[i] # Blank

\* removeManagedBlock(content).  The lines from a start marker to the first
\* end marker after it go, with the line break that follows
RECURSIVE removeManagedBlockFrom(_, _)
removeManagedBlockFrom(lines, i) ==
    LET starts == {j \in i..Len(lines) :
                      /\ lines[j] = CommentLine(MANAGED_BLOCK_START)
                      /\ \E k \in j..Len(lines) : lines[k] = CommentLine(MANAGED_BLOCK_END)}
    IN  IF starts = {} THEN SubSeq(lines, i, Len(lines))
        ELSE LET first == CHOOSE j \in starts : \A k \in starts : j <= k
                 last == CHOOSE j \in first..Len(lines) :
                            /\ lines[j] = CommentLine(MANAGED_BLOCK_END)
                            /\ \A k \in first..(j - 1) : lines[k] # CommentLine(MANAGED_BLOCK_END)
             IN  SubSeq(lines, i, first - 1)
                     \o (IF last = Len(lines) THEN <<Blank>>
                         ELSE removeManagedBlockFrom(lines, last + 1))
removeManagedBlock(lines) == removeManagedBlockFrom(lines, 1)

\* parseTopLevelToml(content)
FirstTableIndex(lines) ==
    IF \E i \in 1..Len(lines) : lines[i].form = "table"
    THEN CHOOSE i \in 1..Len(lines) :
            lines[i].form = "table" /\ \A j \in 1..(i - 1) : lines[j].form # "table"
    ELSE 0
topLevelLines(lines) ==
    IF FirstTableIndex(lines) = 0 THEN lines
    ELSE SubSeq(lines, 1, FirstTableIndex(lines) - 1)
nonTopLevelLines(lines) ==
    IF FirstTableIndex(lines) = 0 THEN <<>>
    ELSE SubSeq(lines, FirstTableIndex(lines), Len(lines))

\* extractTopLevelConfigValues(topLevelLines): a notifications line counts when
\* its value is a one-line array, a notify line when its value is a string
LastLineOf(top, key, form) ==
    LET S == {i \in 1..Len(top) : top[i].key = key /\ top[i].form = form}
    IN  IF S = {} THEN 0 ELSE CHOOSE i \in S : \A j \in S : j <= i
extractTopLevelConfigValues(top) ==
    [hasNotifications |-> LastLineOf(top, "notifications", "array") # 0,
     hasNotify |-> LastLineOf(top, "notify", "string") # 0,
     notifications |-> IF LastLineOf(top, "notifications", "array") = 0 THEN <<>>
                       ELSE top[LastLineOf(top, "notifications", "array")].value,
     notifyCommand |-> IF LastLineOf(top, "notify", "string") = 0 THEN <<>>
                       ELSE top[LastLineOf(top, "notify", "string")].value]

\* Array.from(new Set(values.filter(value => value.trim().length > 0)))
RECURSIVE Distinct(_)
Distinct(values) ==
    IF values = <<>> THEN <<>>
    ELSE LET front == Distinct(SubSeq(values, 1, Len(values) - 1))
             v == values[Len(values)]
         IN  IF v = "" \/ \E i \in 1..Len(front) : front[i] = v THEN front
             ELSE Append(front, v)
formatTomlStringArray(values) == Distinct(values)

\* removeTopLevelKeys(topLevelLines, keys): every line that starts with the
\* key and an equals sign goes, whatever its value is
IsKeyLineOf(line, keys) == ~IsBlankOrComment(line) /\ line.key \in keys
removeTopLevelKeys(top, keys) ==
    SelectSeq(top, LAMBDA line : ~IsKeyLineOf(line, keys))

RECURSIVE PopBlankLines(_)
PopBlankLines(lines) ==
    IF lines # <<>> /\ lines[Len(lines)] = Blank
    THEN PopBlankLines(SubSeq(lines, 1, Len(lines) - 1))
    ELSE lines
\* `${lines.join('\n').replace(/\n+$/g, '')}\n`, read as lines again
EndWithNewline(lines) ==
    IF PopBlankLines(lines) = <<>> THEN <<Blank, Blank>>
    ELSE PopBlankLines(lines) \o <<Blank>>

\* insertManagedBlock(content, managedBlockLines)
insertManagedBlock(lines, managedBlockLines) ==
    LET trimmed == PopBlankLines(removeTopLevelKeys(topLevelLines(lines),
                                                    {"notifications", "notify"}))
    IN  EndWithNewline((IF trimmed # <<>> THEN trimmed \o <<Blank>> ELSE <<>>)
                           \o managedBlockLines
                           \o (IF nonTopLevelLines(lines) # <<>>
                               THEN <<Blank>> \o nonTopLevelLines(lines) ELSE <<>>))

\* restoreTopLevelKeys(content, installState)
restoreTopLevelKeys(lines, state) ==
    IF ~state.present THEN EndWithNewline(lines)
    ELSE LET existing == extractTopLevelConfigValues(topLevelLines(lines))
             restored ==
                 topLevelLines(lines)
                     \o (IF state.hadNotifications /\ ~existing.hasNotifications
                         THEN <<KeyLine("notifications", "array",
                                        formatTomlStringArray(state.previousNotifications))>>
                         ELSE <<>>)
                     \o (IF /\ state.hadNotify
                            /\ ~existing.hasNotify
                            /\ state.previousNotifyCommand # <<>>
                            /\ state.previousNotifyCommand # <<"">>
                         THEN <<KeyLine("notify", "string", state.previousNotifyCommand)>>
                         ELSE <<>>)
         IN  EndWithNewline(PopBlankLines(restored)
                                \o (IF nonTopLevelLines(lines) # <<>>
                                    THEN <<Blank>> \o nonTopLevelLines(lines) ELSE <<>>))

\* buildNotifyCommand(workerServiceScriptPath)
buildNotifyCommand == "bun 'worker-service.cjs' codex-app notify-turn-complete"

\* the values an install remembers: those it finds above the first table once
\* the managed block is out
previousValues(lines) ==
    extractTopLevelConfigValues(topLevelLines(removeManagedBlock(lines)))

InstallerIdle ==
    /\ configFile = [exists |-> FALSE, lines |-> <<>>]
    /\ installState = NoInstallState
    /\ userConfig = [exists |-> FALSE, lines |-> <<>>]
    /\ installsSince = 0
    /\ installsUndone = 0
    /\ installerOp = "none"
    /\ installerOps = 0

\* installCodexAppIntegration(workerServiceScriptPath)
installCodexAppIntegration ==
    /\ installerOps < MaxInstallerOps
    /\ LET existingConfigContent == readCodexConfig
           cleanConfigContent == removeManagedBlock(existingConfigContent)
           previous == previousValues(existingConfigContent)
           notifications == Distinct(previous.notifications \o <<CODEX_NOTIFY_EVENT>>)
           managedBlockLines ==
               <<CommentLine(MANAGED_BLOCK_START),
                 KeyLine("notifications", "array", formatTomlStringArray(notifications)),
                 KeyLine("notify", "string", <<buildNotifyCommand>>),
                 CommentLine(MANAGED_BLOCK_END)>>
       IN  /\ configFile' = [exists |-> TRUE,
                             lines |-> insertManagedBlock(cleanConfigContent,
                                                          managedBlockLines)]
           /\ installState' = [present |-> TRUE,
                               hadNotifications |-> previous.hasNotifications,
                               hadNotify |-> previous.hasNotify,
                               previousNotifications |-> previous.notifications,
                               previousNotifyCommand |-> previous.notifyCommand]
    /\ userConfig' = IF installsSince = 0 THEN configFile ELSE userConfig
    /\ installsSince' = installsSince + 1
    /\ installerOp' = "install"
    /\ installerOps' = installerOps + 1
    /\ UNCHANGED <<installsUndone, outsideInstaller>>

\* uninstallCodexAppIntegration()
uninstallCodexAppIntegration ==
    /\ installerOps < MaxInstallerOps
    /\ IF ~configFile.exists
       THEN UNCHANGED configFile
       ELSE configFile' =
                [exists |-> TRUE,
                 lines |-> restoreTopLevelKeys(removeManagedBlock(readCodexConfig),
                                               installState)]
    /\ installState' = NoInstallState
    /\ installsUndone' = installsSince
    /\ installsSince' = 0
    /\ installerOp' = "uninstall"
    /\ installerOps' = installerOps + 1
    /\ UNCHANGED <<userConfig, outsideInstaller>>

(***************************************************************************)
(* CodexAppInstaller: runCodexNotifyCatchupIngestion and its lock file     *)
(***************************************************************************)
MaxNotifyRuns == 3

\* the invocations of `codex-app notify-turn-complete`, one process each
NotifyRuns == 1..MaxNotifyRuns

NotifyIdle ==
    /\ notifyPc = [p \in NotifyRuns |-> "waiting"]
    /\ notifyLock = "none"
    /\ lastRunRecent = FALSE

\* the process starts: nowEpochMs - lastRunEpochMs < DEFAULT_NOTIFY_DEBOUNCE_MS
StartNotify(p) ==
    /\ notifyPc[p] = "waiting"
    /\ notifyPc' = [notifyPc EXCEPT ![p] = IF lastRunRecent THEN "debounced" ELSE "check"]
    /\ UNCHANGED <<notifyLock, lastRunRecent, outsideNotify>>

\* acquireNotifyLock: existsSync(lockPath) and the age of the file
CheckNotifyLock(p) ==
    /\ notifyPc[p] = "check"
    /\ notifyPc' = [notifyPc EXCEPT ![p] =
                       CASE notifyLock = "none" -> "create"
                         [] notifyLock = "fresh" -> "already-running"
                         [] notifyLock = "stale" -> "remove"]
    /\ UNCHANGED <<notifyLock, lastRunRecent, outsideNotify>>

\* acquireNotifyLock: rmSync(lockPath, {force: true}) of the lock found stale
RemoveStaleLock(p) ==
    /\ notifyPc[p] = "remove"
    /\ notifyLock' = "none"
    /\ notifyPc' = [notifyPc EXCEPT ![p] = "create"]
    /\ UNCHANGED <<lastRunRecent, outsideNotify>>

\* acquireNotifyLock: openSync(lockPath, 'wx'), which throws when the file exists
CreateNotifyLock(p) ==
    /\ notifyPc[p] = "create"
    /\ IF notifyLock = "none"
       THEN /\ notifyLock' = "fresh"
            /\ notifyPc' = [notifyPc EXCEPT ![p] = "ingesting"]
       ELSE /\ notifyPc' = [notifyPc EXCEPT ![p] = "threw"]
            /\ UNCHANGED notifyLock
    /\ UNCHANGED <<lastRunRecent, outsideNotify>>

\* the ingestion returns: writeLastNotifyRunEpochMs and, in the finally
\* block, releaseNotifyLock; when it throws only the lock is released
FinishNotify(p, threw) ==
    /\ notifyPc[p] = "ingesting"
    /\ notifyPc' = [notifyPc EXCEPT ![p] = IF threw THEN "failed" ELSE "done"]
    /\ notifyLock' = "none"
    /\ lastRunRecent' = IF threw THEN lastRunRecent ELSE TRUE
    /\ UNCHANGED outsideNotify

\* the process is killed while it ingests: its lock file stays
NotifyKilled(p) ==
    /\ notifyPc[p] = "ingesting"
    /\ notifyPc' = [notifyPc EXCEPT ![p] = "killed"]
    /\ UNCHANGED <<notifyLock, lastRunRecent, outsideNotify>>

\* DEFAULT_NOTIFY_DEBOUNCE_MS go by since the last run
DebounceTimePasses ==
    /\ lastRunRecent
    /\ lastRunRecent' = FALSE
    /\ UNCHANGED <<notifyPc, notifyLock, outsideNotify>>

\* DEFAULT_NOTIFY_LOCK_STALE_MS go by since the lock file was written
StaleTimePasses ==
    /\ notifyLock = "fresh"
    /\ ~lastRunRecent
    /\ notifyLock' = "stale"
    /\ UNCHANGED <<notifyPc, lastRunRecent, outsideNotify>>

(***************************************************************************)
(* The stdio bridge: ensureWorkerAvailable called by overlapping tool calls *)
(***************************************************************************)
MaxCallers == 3
MaxStartAttempts == 2

Callers == 1..MaxCallers

StartupIdle ==
    /\ workerAnswers = FALSE
    /\ workerStartupPromise = 0
    /\ startAttempts = <<>>
    /\ callerPc = [c \in Callers |-> "idle"]
    /\ callerWaitsOn = [c \in Callers |-> 0]
    /\ callerResult = [c \in Callers |-> "none"]

\* if (!workerStartupPromise)
startupNeverInProgress == FALSE
startupInProgress == workerStartupPromise # 0

\* ensureWorkerAvailable(reason) is called: await verifyWorkerConnection()
CallEnsureWorkerAvailable(c) ==
    /\ callerPc[c] = "idle"
    /\ callerPc' = [callerPc EXCEPT ![c] = "verify"]
    /\ UNCHANGED <<workerAnswers, workerStartupPromise, startAttempts, callerWaitsOn,
                   callerResult, outsideStartup>>

\* the health check of the call comes back; when the worker did not answer the
\* call starts the worker, unless a start is in progress, and returns the
\* promise of the start.  startWorkerViaCli is synchronous: on failure the
\* promise is settled when it is stored
VerifyComesBack(c, startSucceeds) ==
    /\ callerPc[c] = "verify"
    /\ IF workerAnswers
       THEN /\ callerPc' = [callerPc EXCEPT ![c] = "returned"]
            /\ callerResult' = [callerResult EXCEPT ![c] = "true"]
            /\ UNCHANGED <<workerStartupPromise, startAttempts, callerWaitsOn>>
       ELSE /\ IF startupInProgress
               THEN /\ callerWaitsOn' = [callerWaitsOn EXCEPT ![c] = workerStartupPromise]
                    /\ UNCHANGED <<workerStartupPromise, startAttempts>>
               ELSE /\ Len(startAttempts) < MaxStartAttempts
                    /\ startAttempts' = Append(startAttempts,
                                               IF startSucceeds THEN "polling" ELSE "false")
                    /\ workerStartupPromise' = Len(startAttempts) + 1
                    /\ callerWaitsOn' = [callerWaitsOn EXCEPT ![c] = Len(startAttempts) + 1]
            /\ callerPc' = [callerPc EXCEPT ![c] = "awaiting"]
            /\ UNCHANGED callerResult
    /\ UNCHANGED <<workerAnswers, outsideStartup>>

\* waitForWorkerConnection returns: true when a health check was answered,
\* false at the deadline
WaitForWorkerReturns(k, becameHealthy) ==
    /\ k \in 1..Len(startAttempts)
    /\ startAttempts[k] = "polling"
    /\ becameHealthy => workerAnswers
    /\ startAttempts' = [startAttempts EXCEPT ![k] = IF becameHealthy THEN "true" ELSE "false"]
    /\ UNCHANGED <<workerAnswers, workerStartupPromise, callerPc, callerWaitsOn,
                   callerResult, outsideStartup>>

\* .finally(() => { workerStartupPromise = null })
StartupSettles ==
    /\ workerStartupPromise # 0
    /\ startAttempts[workerStartupPromise] # "polling"
    /\ workerStartupPromise' = 0
    /\ UNCHANGED <<workerAnswers, startAttempts, callerPc, callerWaitsOn, callerResult,
                   outsideStartup>>

\* the promise a call returned is settled, after its finally callback has run
CallerGetsOutcome(c) ==
    /\ callerPc[c] = "awaiting"
    /\ startAttempts[callerWaitsOn[c]] # "polling"
    /\ workerStartupPromise # callerWaitsOn[c]
    /\ callerPc' = [callerPc EXCEPT ![c] = "returned"]
    /\ callerResult' = [callerResult EXCEPT ![c] = startAttempts[callerWaitsOn[c]]]
    /\ UNCHANGED <<workerAnswers, workerStartupPromise, startAttempts, callerWaitsOn,
                   outsideStartup>>

\* the worker comes up or goes down
WorkerComesOrGoes ==
    /\ workerAnswers' = ~workerAnswers
    /\ UNCHANGED <<workerStartupPromise, startAttempts, callerPc, callerWaitsOn,
                   callerResult, outsideStartup>>

(***************************************************************************)
(* Ingestion runs with --since and --dry-run, and what the worker accepted *)
(***************************************************************************)
\* record.ts of the records, and the timestamps a run can be given as --since
Timestamps == {1, 2}
SinceOptions == {NoSince, [has |-> TRUE, ts |-> 2]}
AllRecords == Files \X (1..MaxLines)
RecordOf(e) == <<e.file, e.line>>

RunsIdle ==
    /\ recordTs = [f \in Files |-> <<>>]
    /\ sinceOpt = NoSince
    /\ dryRunOpt = FALSE
    /\ ensureWorkerCalls = 0
    /\ initAccepted = {}
    /\ observationPosts = [r \in AllRecords |-> 0]
    /\ selectedNothing = FALSE
    /\ sinceUsed = 0

\* runCodexHistoryIngestion up to the ingestion loop: dry runs return before
\* ensureWorker, as do runs that select nothing
StartIngestionRunSteps(hasLimit, n, since, dryRun) ==
    /\ StartRunSteps(hasLimit, n, since, dryRun)
    /\ sinceOpt' = since
    /\ dryRunOpt' = dryRun
    /\ ensureWorkerCalls' = IF runPc' = "ingesting" THEN ensureWorkerCalls + 1
                            ELSE ensureWorkerCalls
    /\ selectedNothing' = (selectedNothing \/ selected' = <<>>)
    /\ sinceUsed' = IF since.has /\ ~dryRun /\ since.ts > sinceUsed THEN since.ts
                    ELSE sinceUsed
    /\ UNCHANGED <<recordTs, initAccepted, observationPosts, outsideRuns>>

\* a run of the CLI
StartIngestionRun(hasLimit, n, since, dryRun) ==
    /\ runs < MaxRuns
    /\ StartIngestionRunSteps(hasLimit, n, since, dryRun)

\* a run of the notify hook: limit, no since-timestamp, not a dry run
StartCatchupRun(n) == StartIngestionRunSteps(TRUE, n, NoSince, FALSE)

\* one pass of the ingestion loop, and what the worker accepted of its POSTs:
\* postJsonWithRetry returns only for a response that is ok
IngestOneRecord(outcome) ==
    /\ IngestRecordSteps(outcome)
    /\ LET e == selected[cursor]
           sent == PostsOfRecord(e, outcome)
       IN  /\ initAccepted' = IF sent # <<>> /\ outcome # "initFail"
                              THEN initAccepted \cup {RecordOf(e)} ELSE initAccepted
           /\ observationPosts' =
                  IF sent # <<>> /\ outcome = "ok"
                  THEN [observationPosts EXCEPT ![RecordOf(e)] = @ + 1]
                  ELSE observationPosts
    /\ UNCHANGED <<recordTs, sinceOpt, dryRunOpt, ensureWorkerCalls, selectedNothing,
                   sinceUsed, outsideRuns>>

FinishIngestionRun == FinishRunSteps /\ UNCHANGED <<runVars, outsideRuns>>

(***************************************************************************)
(* What the components that are not running look like                      *)
(***************************************************************************)
EarlierIdle ==
    /\ fallbackConfigured = FALSE
    /\ WorkerIdle
    /\ GhostInit
    /\ NoTranscripts
    /\ NoAgentRuns
    /\ RetryIdle
    /\ NotLoaded

MiddleIdle == QueryIdle /\ BridgeIdle /\ SettingsIdle /\ MigrationIdle /\ StripIdle
LastIdle == SessionInitIdle /\ SearchIdle /\ InstallerIdle /\ NotifyIdle /\ StartupIdle /\ RunsIdle
LaterIdle == MiddleIdle /\ LastIdle
RestIdleSessionInit == EarlierIdle /\ MiddleIdle /\ SearchIdle /\ InstallerIdle /\ NotifyIdle /\ StartupIdle /\ RunsIdle
RestIdleSearch == EarlierIdle /\ MiddleIdle /\ SessionInitIdle /\ InstallerIdle /\ NotifyIdle /\ StartupIdle /\ RunsIdle
RestIdleInstaller == EarlierIdle /\ MiddleIdle /\ SessionInitIdle /\ SearchIdle /\ NotifyIdle /\ StartupIdle /\ RunsIdle
RestIdleNotify == EarlierIdle /\ MiddleIdle /\ SessionInitIdle /\ SearchIdle /\ InstallerIdle /\ StartupIdle /\ RunsIdle
RestIdleStartup == EarlierIdle /\ MiddleIdle /\ SessionInitIdle /\ SearchIdle /\ InstallerIdle /\ NotifyIdle /\ RunsIdle
RestIdleRuns == fallbackConfigured = FALSE /\ WorkerIdle /\ GhostInit /\ NoAgentRuns /\ RetryIdle /\ NotLoaded /\ MiddleIdle /\ SessionInitIdle /\ SearchIdle /\ InstallerIdle /\ NotifyIdle /\ StartupIdle

(***************************************************************************)
(* The worker: ingest requests and agent tasks                             *)
(***************************************************************************)
Init == AgentInit /\ GhostInit /\ NoTranscripts /\ NoAgentRuns /\ RetryIdle /\ NotLoaded /\ LaterIdle

Next ==
    \/ \E s \in Sessions, type \in MessageTypes, p \in Providers : Ingest(s, type, p)
    \/ \E s \in Sessions : Abort(s)
    \/ \E s \in Sessions, o \in Outcomes : GeminiInitResponse(s, o)
    \/ \E s \in Sessions : GeminiNext(s)
    \/ \E s \in Sessions, o \in Outcomes : GeminiMsgResponse(s, o)
    \/ \E s \in Sessions, o \in Outcomes : CodexInitResponse(s, o)
    \/ \E s \in Sessions : CodexNext(s)
    \/ \E s \in Sessions, o \in Outcomes : CodexMsgResponse(s, o)

Spec == Init /\ [][Next]_vars

(***************************************************************************)
(* The ingestion CLI: runs over transcript files that do not change        *)
(***************************************************************************)
Transcripts == UNION {[1..n -> RecordKinds] : n \in 0..MaxLines}
\* what the CLI is run with: nothing, --include-system, or --skip-summaries
OptionSets ==
    {DefaultOptions,
     [includeSystem |-> TRUE, skipSummaries |-> FALSE],
     [includeSystem |-> FALSE, skipSummaries |-> TRUE]}

IngestInit ==
    /\ fallbackConfigured = FALSE
    /\ WorkerIdle
    /\ GhostInit
    /\ fileRecords \in [Files -> Transcripts]
    /\ \A f \in Files : \A l \in 1..Len(fileRecords[f]) : fileRecords[f][l] \in KindsOf(f)
    /\ sessionOf \in {so \in [Files -> SessionNames] : so[1] = 1}
    /\ cliOptions \in OptionSets
    /\ stateFile = [f \in Files |-> 0]
    /\ checkpointState = [f \in Files |-> 0]
    /\ runPc = "idle"
    /\ limitOpt = [has |-> FALSE, n |-> 0]
    /\ selected = <<>>
    /\ cursor = 1
    /\ ingested = <<>>
    /\ stoppedAt = 0
    /\ posts = <<>>
    /\ runs = 0
    /\ thisRun = NoRun
    /\ prevRun = NoRun
    /\ NoAgentRuns
    /\ RetryIdle
    /\ NotLoaded
    /\ LaterIdle

IngestNext ==
    \/ \E n \in 1..MaxLimit : StartRun(TRUE, n)
    \/ StartRun(FALSE, 0)
    \/ \E outcome \in PostOutcomes : IngestRecord(outcome)
    \/ FinishRun

SpecIngest == IngestInit /\ [][IngestNext]_vars

(***************************************************************************)
(* Agent runs over the sessions of the store, seen from the session ids    *)
(***************************************************************************)
MemoryInit ==
    /\ fallbackConfigured = TRUE
    /\ WorkerIdle
    /\ GhostInit
    /\ NoTranscripts
    /\ NoAgentRuns
    /\ RetryIdle
    /\ NotLoaded
    /\ LaterIdle

MemoryNext ==
    \/ \E s \in SessionIds, handsOver \in BOOLEAN : GeminiStartSession(s, handsOver)
    \/ \E s \in SessionIds : CodexStartSession(s)
    \/ \E s \in SessionIds : OllamaStartSession(s)
    \/ \E s \in SessionIds : RecreateSession(s)

SpecMemory == MemoryInit /\ [][MemoryNext]_vars

(***************************************************************************)
(* One call of postJsonWithRetry under every policy and every fetch        *)
(***************************************************************************)
RetryInit ==
    /\ fallbackConfigured = FALSE
    /\ WorkerIdle
    /\ GhostInit
    /\ NoTranscripts
    /\ NoAgentRuns
    /\ retryPolicy \in [maxAttempts : 1..MaxAttempts, baseDelayMs : BaseDelays]
    /\ attempt = 1
    /\ retryPc = "fetch"
    /\ fetchCalls = 0
    /\ sleepCalls = <<>>
    /\ lastFetch = NoFetch
    /\ NotLoaded
    /\ LaterIdle

RetryNext ==
    \/ \E o \in FetchOutcomes : FetchAttempt(o)
    \/ SleepDone

SpecRetry == RetryInit /\ [][RetryNext]_vars

(***************************************************************************)
(* Loads and saves of the checkpoint state file, from every state file     *)
(***************************************************************************)
LoadInit ==
    /\ fallbackConfigured = FALSE
    /\ WorkerIdle
    /\ GhostInit
    /\ NoTranscripts
    /\ NoAgentRuns
    /\ RetryIdle
    /\ checkpointFile \in StateFiles
    /\ checkpointFile.historyPath = 0 => checkpointFile.lastProcessedLineNumber = 0
    /\ loadedCheckpoints = EmptyMap
    /\ loadPc = "unloaded"
    /\ LaterIdle

LoadNext ==
    \/ LoadCheckpointState
    \/ \E f \in Files, line \in 1..MaxCheckpoint : SaveCheckpointState(f, line)

SpecLoad == LoadInit /\ [][LoadNext]_vars

(***************************************************************************)
(* Queries of the sessions' agents against the Gemini API                  *)
(***************************************************************************)
QueryInit ==
    /\ EarlierIdle
    /\ LastIdle
    /\ BridgeIdle
    /\ SettingsIdle
    /\ MigrationIdle
    /\ StripIdle
    /\ rateLimitingEnabled \in BOOLEAN
    /\ dateNow = StartMs
    /\ lastRequestTime = 0
    /\ qPc = [s \in QuerySessions |-> "idle"]
    /\ qModel = [s \in QuerySessions |-> FallbackModel]
    /\ qWake = [s \in QuerySessions |-> 0]
    /\ qFetches = [s \in QuerySessions |-> <<>>]
    /\ requests = NoRequests

QueryNext ==
    \/ \E s \in QuerySessions, model \in GeminiModels : StartQuery(s, model)
    \/ \E s \in QuerySessions : TimerFires(s)
    \/ \E s \in QuerySessions, status \in ResponseStatuses : FetchResponse(s, status)
    \/ Tick

SpecQuery == QueryInit /\ [][QueryNext]_vars

(***************************************************************************)
(* Requests of an MCP client to the stdio bridge                           *)
(***************************************************************************)
BridgeInit ==
    /\ EarlierIdle
    /\ LastIdle
    /\ QueryIdle
    /\ SettingsIdle
    /\ MigrationIdle
    /\ StripIdle
    /\ workerUp \in BOOLEAN
    /\ bPc = "idle"
    /\ bPhase = 1
    /\ bTool = "none"
    /\ bRequests = <<>>
    /\ bStarts = 0
    /\ bElapsed = 0
    /\ bFirst = "none"
    /\ bEnsure = "none"
    /\ bResult = "none"
    /\ toolListing = <<>>
    /\ toolCalls = 0

BridgeNext ==
    \/ ListTools
    \/ \E name \in RequestedNames : CallTool(name)
    \/ \E healthy, started \in BOOLEAN : VerifyWorker(healthy, started)
    \/ \E healthy \in BOOLEAN, duration \in HealthCheckDurations : PollHealth(healthy, duration)
    \/ \E outcome \in WorkerFetchOutcomes : FetchWorker(outcome)
    \/ WorkerChanges

SpecBridge == BridgeInit /\ [][BridgeNext]_vars

(***************************************************************************)
(* Settings loads of one process under every environment and file          *)
(***************************************************************************)
SettingsInit ==
    /\ EarlierIdle
    /\ LastIdle
    /\ QueryIdle
    /\ BridgeIdle
    /\ MigrationIdle
    /\ StripIdle
    /\ processEnv \in [EnvNames -> {Undefined} \cup EnvValues]
    /\ settingsFile \in SettingsFiles
    /\ warnedDeprecationKeys = {}
    /\ warnings = [k \in SettingKeys |-> 0]
    /\ loads = 0
    /\ loadedSettings = DEFAULTS
    /\ settingsLoaded = FALSE

SettingsNext ==
    \/ \E writeOk \in BOOLEAN : LoadFromFile(writeOk)
    \/ \E name \in EnvNames, value \in {Undefined} \cup EnvValues : SetEnv(name, value)

SpecSettings == SettingsInit /\ [][SettingsNext]_vars

(***************************************************************************)
(* Migration runs over every legacy and canonical directory                *)
(***************************************************************************)
MigrationInit ==
    /\ EarlierIdle
    /\ LastIdle
    /\ QueryIdle
    /\ BridgeIdle
    /\ SettingsIdle
    /\ StripIdle
    /\ legacyDir \in {NoDirectory} \cup Directories(LegacyContent)
    /\ canonicalDir \in {NoDirectory} \cup Directories(CanonicalContent)
    /\ lockFile = 0
    /\ reportFile = 0
    /\ migrationRuns = 0
    /\ migrationOptions = NoOptions
    /\ migrationResult = NoResult
    /\ fsBefore = [canonicalDir |-> NoDirectory, lockFile |-> 0, reportFile |-> 0]
    /\ migrationJustRan = FALSE

MigrationNext ==
    \/ \E options \in MigrationOptions : RunDataDirMigration(options)
    \/ \E canonical \in BOOLEAN, p \in RelativePaths : WriteDataFile(canonical, p)

SpecMigration == MigrationInit /\ [][MigrationNext]_vars

(***************************************************************************)
(* Tag stripping of every text, and of its result                          *)
(***************************************************************************)
StripInit ==
    /\ EarlierIdle
    /\ LastIdle
    /\ QueryIdle
    /\ BridgeIdle
    /\ SettingsIdle
    /\ MigrationIdle
    /\ content \in Texts
    /\ stripped = <<>>
    /\ strippedAgain = <<>>
    /\ stripPc = "input"

StripNext ==
    \/ StripMemoryTags
    \/ StripMemoryTagsAgain

SpecStrip == StripInit /\ [][StripNext]_vars

(***************************************************************************)
(* Tag stripping of payloads with many opening tags                        *)
(***************************************************************************)
StripLargeInit ==
    /\ EarlierIdle
    /\ LastIdle
    /\ QueryIdle
    /\ BridgeIdle
    /\ SettingsIdle
    /\ MigrationIdle
    /\ content \in LargeTexts
    /\ stripped = <<>>
    /\ strippedAgain = <<>>
    /\ stripPc = "input"

SpecStripLarge == StripLargeInit /\ [][StripNext]_vars

(***************************************************************************)
(* Session init requests                                                   *)
(***************************************************************************)
SessionInitInit ==
    /\ RestIdleSessionInit
    /\ initRequests = 0
    /\ initPrompt \in PromptTexts
    /\ initPlatform = "transcript"
    /\ initResponse = NoResponse
    /\ userPromptCount = 0
    /\ savedPromptText = <<>>
    /\ newPromptEvents = 0

SessionInitNext ==
    \E platform \in Platforms : SessionsInit(platform)

SpecSessionInit == SessionInitInit /\ [][SessionInitNext]_vars

(***************************************************************************)
(* Prompt searches over a store and a vector index that change             *)
(***************************************************************************)
SearchInit ==
    /\ RestIdleSearch
    /\ SearchIdle

SearchNext ==
    \/ \E row \in PromptRowValues, synced \in BOOLEAN : SavePrompt(row, synced)
    \/ VectorBackendChanges
    \/ \E query \in PromptWords, project \in Projects,
          answer \in [down : BOOLEAN, ids : SUBSET (1..MaxPrompts)] :
            SearchUserPrompts(query, project, answer)

SpecSearch == SearchInit /\ [][SearchNext]_vars

(***************************************************************************)
(* Installs and uninstalls of the codex-app integration over user configs  *)
(***************************************************************************)
InstallerInit ==
    /\ RestIdleInstaller
    /\ configFile \in UserConfigs
    /\ installState = NoInstallState
    /\ userConfig = configFile
    /\ installsSince = 0
    /\ installsUndone = 0
    /\ installerOp = "none"
    /\ installerOps = 0

InstallerNext ==
    \/ installCodexAppIntegration
    \/ uninstallCodexAppIntegration

SpecInstaller == InstallerInit /\ [][InstallerNext]_vars

(***************************************************************************)
(* Overlapping notify-turn-complete invocations                            *)
(***************************************************************************)
NotifyInit ==
    /\ RestIdleNotify
    /\ NotifyIdle

NotifyNext ==
    \/ \E p \in NotifyRuns : StartNotify(p)
    \/ \E p \in NotifyRuns : CheckNotifyLock(p)
    \/ \E p \in NotifyRuns : RemoveStaleLock(p)
    \/ \E p \in NotifyRuns : CreateNotifyLock(p)
    \/ \E p \in NotifyRuns, threw \in BOOLEAN : FinishNotify(p, threw)
    \/ \E p \in NotifyRuns : NotifyKilled(p)
    \/ DebounceTimePasses
    \/ StaleTimePasses

SpecNotify == NotifyInit /\ [][NotifyNext]_vars

(***************************************************************************)
(* Overlapping calls of ensureWorkerAvailable                              *)
(***************************************************************************)
StartupInit ==
    /\ RestIdleStartup
    /\ workerAnswers \in BOOLEAN
    /\ workerStartupPromise = 0
    /\ startAttempts = <<>>
    /\ callerPc = [c \in Callers |-> "idle"]
    /\ callerWaitsOn = [c \in Callers |-> 0]
    /\ callerResult = [c \in Callers |-> "none"]

StartupNext ==
    \/ \E c \in Callers : CallEnsureWorkerAvailable(c)
    \/ \E c \in Callers, startSucceeds \in BOOLEAN : VerifyComesBack(c, startSucceeds)
    \/ \E k \in 1..MaxStartAttempts, becameHealthy \in BOOLEAN :
          WaitForWorkerReturns(k, becameHealthy)
    \/ StartupSettles
    \/ \E c \in Callers : CallerGetsOutcome(c)
    \/ WorkerComesOrGoes

SpecStartup == StartupInit /\ [][StartupNext]_vars

(***************************************************************************)
(* Ingestion runs with every option, over transcript files that do not     *)
(* change                                                                  *)
(***************************************************************************)
\* --skip-summaries, with or without --include-system
RunOptionSets ==
    {[includeSystem |-> FALSE, skipSummaries |-> TRUE],
     [includeSystem |-> TRUE, skipSummaries |-> TRUE]}

TranscriptFilesInit ==
    /\ RestIdleRuns
    /\ fileRecords \in [Files -> Transcripts]
    /\ \A f \in Files : \A l \in 1..Len(fileRecords[f]) : fileRecords[f][l] \in KindsOf(f)
    /\ sessionOf = [f \in Files |-> f]
    /\ cliOptions \in RunOptionSets
    /\ stateFile = [f \in Files |-> 0]
    /\ checkpointState = [f \in Files |-> 0]
    /\ runPc = "idle"
    /\ limitOpt = [has |-> FALSE, n |-> 0]
    /\ selected = <<>>
    /\ cursor = 1
    /\ ingested = <<>>
    /\ stoppedAt = 0
    /\ posts = <<>>
    /\ runs = 0
    /\ thisRun = NoRun
    /\ prevRun = NoRun
    /\ sinceOpt = NoSince
    /\ dryRunOpt = FALSE
    /\ ensureWorkerCalls = 0
    /\ initAccepted = {}
    /\ observationPosts = [r \in AllRecords |-> 0]
    /\ selectedNothing = FALSE
    /\ sinceUsed = 0

IngestRunsInit ==
    /\ TranscriptFilesInit
    /\ recordTs \in [Files -> UNION {[1..n -> Timestamps] : n \in 0..MaxLines}]
    /\ \A f \in Files : Len(recordTs[f]) = Len(fileRecords[f])

IngestRunsNext ==
    \/ \E n \in 1..MaxLimit, since \in SinceOptions, dryRun \in BOOLEAN :
          StartIngestionRun(TRUE, n, since, dryRun)
    \/ \E since \in SinceOptions, dryRun \in BOOLEAN :
          StartIngestionRun(FALSE, 0, since, dryRun)
    \/ \E outcome \in PostOutcomes : IngestOneRecord(outcome)
    \/ FinishIngestionRun

SpecIngestRuns == IngestRunsInit /\ [][IngestRunsNext]_vars

(***************************************************************************)
(* The notify hook: run after run with a limit, the worker answering       *)
(***************************************************************************)
CatchupInit ==
    /\ TranscriptFilesInit
    /\ recordTs = [f \in Files |-> [l \in 1..Len(fileRecords[f]) |-> 1]]

CatchupNext ==
    \/ \E n \in 1..MaxLimit : StartCatchupRun(n)
    \/ IngestOneRecord("ok")
    \/ FinishIngestionRun

\* the hook is run again and again, and a run that has started goes on
SpecCatchup == CatchupInit /\ [][CatchupNext]_vars /\ WF_vars(CatchupNext)

(***************************************************************************)
(* Properties of the queue and of the agents                               *)
(***************************************************************************)
\* the step in which agent a of session s claims a message from the queue
ClaimStep(s, a) == cur'[s][a] # cur[s][a] /\ cur'[s][a] # NoMsg

\* C1: every claim returns a pending message of the session such that no
\* summarize message is left pending when an observation is returned, and no
\* pending message of the same type has a smaller id; the claimed message
\* leaves the queue.
C1_ClaimOrder ==
    [][\A s \in Sessions, a \in Providers :
          ClaimStep(s, a) =>
              LET m == cur'[s][a]
              IN  /\ m \in PendingOf(pending, s)
                  /\ pending' = pending \ {m}
                  /\ m.type = "observation" =>
                        \A o \in PendingOf(pending, s) : o.type # "summarize"
                  /\ \A o \in PendingOf(pending, s) : o.type = m.type => m.id <= o.id]_vars

\* a summarize message was claimed while an older observation is still pending
C1_Witness ==
    \E s \in Sessions, a \in Providers :
        /\ cur[s][a].type = "summarize"
        /\ \E o \in PendingOf(pending, s) : o.type = "observation" /\ o.id < cur[s][a].id

\* C2: in every reachable state at most one agent is executing startSession
\* for a session.
C2_OneActiveAgent == \A s \in Sessions : Cardinality(Active(s)) <= 1

\* the fallback agent runs after a handoff while messages are pending
C2_Witness ==
    \E s \in Sessions :
        /\ Active(s) = {"codex"}
        /\ fallbackCalls[s] = 1
        /\ PendingOf(pending, s) # {}

C7_ClaimedReplayedFirst ==
    \A s \in Sessions :
        (inflight[s].id # 0 /\ \E k \in fbStored[s] : k >= inflight[s].next)
            => inflight[s].id \in fbStored[s]

\* C8: after a fallback-eligible failure with a fallback configured, the
\* fallback's startSession has been called exactly once, the history it was
\* given is still the beginning of the session's history and ends with the
\* turn that failed, and GeminiAgent is out of startSession without a
\* further provider call.
C8_FallbackOnce ==
    \A s \in Sessions :
        eligibleFailures[s] >= 1 =>
            /\ fallbackCalls[s] = 1
            /\ eligibleFailures[s] = 1
            /\ IsPrefix(handoffHistory[s], history[s])
            /\ Len(handoffHistory[s]) >= 1
            /\ handoffHistory[s][Len(handoffHistory[s])] = UserTurn(inflight[s].id)
            /\ callsAfterHandoff[s] = 0
            /\ pc[s]["gemini"] = "idle"

\* the fallback agent took over after a failed message turn and is in a turn
C8_Witness ==
    \E s \in Sessions :
        /\ eligibleFailures[s] = 1
        /\ inflight[s].id # 0
        /\ Len(handoffHistory[s]) >= 3
        /\ pc[s]["codex"] = "msg_wait"

\* C9: every step leaves the history of each session as a prefix of the
\* history after the step.
C9_HistoryAppendOnly ==
    [][\A s \in Sessions : IsPrefix(history[s], history'[s])]_vars

\* both agents have appended to the history of one session
C9_Witness ==
    \E s \in Sessions :
        /\ fallbackCalls[s] = 1
        /\ Len(history[s]) >= Len(handoffHistory[s]) + 3
        /\ Len(handoffHistory[s]) >= 3

\* C10: once the token of a session's task is signalled, no step stores an
\* observation or a summary of the session or calls the fallback agent, and
\* a task that ends after the signal ends with the cancellation.
C10_AbortedTurnNotCommitted ==
    [][\A s \in Sessions :
          aborted[s] =>
              /\ {r \in stored' : r[1] = s} = {r \in stored : r[1] = s}
              /\ fallbackCalls'[s] <= fallbackCalls[s]
              /\ (Active(s) # {} /\ \A a \in Providers : pc'[s][a] = "idle")
                     => lastOutcome'[s] = "aborted"]_vars

\* C13: an observation message is claimed when it is the earliest pending
\* message of its session, and whatever is stored from its turn is created at
\* the created_at_epoch of that message, not at the time of the store.
C13_ObservationKeepsClaimTimestamp ==
    [][\A s \in Sessions, a \in Providers :
          /\ (ClaimStep(s, a) /\ cur'[s][a].type = "observation") =>
                 \A m \in PendingOf(pending, s) : CreatedAt(cur'[s][a]) <= CreatedAt(m)
          /\ (pc[s][a] = "msg_wait" /\ cur[s][a].type = "observation") =>
                 \A r \in stored' \ stored :
                     r[5] = CreatedAt(cur[s][a]) /\ r[5] # Now]_vars

\* an observation of a queued message was stored with the message's time
\* after later messages had been enqueued
C13_Witness ==
    \E r \in stored :
        /\ r[2] # 0
        /\ r[3] = "gemini" /\ r[4] = "synthetic"
        /\ r[5] = 2 * r[2]
        /\ nextId > r[2] + 1

\* C14: when the turn of a claimed observation message ends with a provider
\* reply, something is stored for that message, whichever agent ran the turn.
C14_EmptyReplyStoresSynthetic ==
    [][\A s \in Sessions, a \in Providers :
          (pc[s][a] = "msg_wait" /\ pc'[s][a] = "loop" /\ cur[s][a].type = "observation")
              => \E r \in stored' : r[1] = s /\ r[2] = cur[s][a].id]_vars

(***************************************************************************)
(* Properties of the ingestion                                             *)
(***************************************************************************)
\* C4 as stated: after a run that ingested every selected record and saved
\* its checkpoints, the next run sends no POST.
C4_SecondRunSendsNothing ==
    (prevRun.saved /\ prevRun.allIngested) => posts = <<>>

\* C4: after a run whose selection was not cut by the limit, that ingested
\* every selected record and saved its checkpoints, the next run selects
\* nothing and sends no POST, whatever its limit.
C4_SecondRunAfterFullRun ==
    (prevRun.saved /\ prevRun.allIngested /\ ~prevRun.truncated)
        => (posts = <<>> /\ selected = <<>>)

\* a second run took place after a complete, uncut first run that ingested
\* records of both files
C4_Witness ==
    /\ runs = 2
    /\ runPc = "idle"
    /\ prevRun.saved /\ prevRun.allIngested /\ ~prevRun.truncated
    /\ \A f \in Files : stateFile[f] > 0

\* C5 as stated: when a record of a file failed, the stored checkpoint of
\* that file after the run equals its value before the run.
C5_CheckpointUnchangedOnFailure ==
    (runPc = "idle" /\ stoppedAt # 0) =>
        stateFile[selected[stoppedAt].file] = checkpointState[selected[stoppedAt].file]

\* C5: when a record of a file failed, the stored checkpoint of that file
\* after the run is below the failed record: it is the line of the last
\* record of that file ingested by the run, or its value before the run
\* when the run ingested none of that file.
C5_CheckpointBelowFailedRecord ==
    (runPc = "idle" /\ stoppedAt # 0) =>
        LET e == selected[stoppedAt]
            mine == LinesOf(ingested, e.file)
        IN  /\ stateFile[e.file] < e.line
            /\ stateFile[e.file] = IF mine = {} THEN checkpointState[e.file] ELSE MaxOf(mine)

\* a run failed on a record after ingesting an earlier record of the same file
C5_Witness ==
    /\ runPc = "idle"
    /\ stoppedAt # 0
    /\ LinesOf(ingested, selected[stoppedAt].file) # {}
    /\ stateFile[selected[stoppedAt].file] # checkpointState[selected[stoppedAt].file]

\* C6: once a record failed, the loop is left, and every init or observation
\* POST of the run belongs to the failed record or to one selected before it.
C6_StopsAtFailedRecord ==
    stoppedAt # 0 =>
        /\ runPc # "ingesting"
        /\ \A i \in 1..Len(posts) :
               posts[i].kind \in {"init", "observation"} =>
                   \E j \in 1..stoppedAt :
                       selected[j] = [file |-> posts[i].file, line |-> posts[i].line]

\* a run ended on a failed record with selected records left after it
C6_Witness ==
    /\ runPc = "idle"
    /\ stoppedAt # 0
    /\ stoppedAt < Len(selected)
    /\ Len(ingested) >= 1

(***************************************************************************)
(* Properties of the memory session ids                                    *)
(***************************************************************************)
\* the step in which an agent's startSession ran for session s
AgentRan(s) == agentRuns' # agentRuns /\ lastRun'.session = s

\* C11: once the persisted memory session id of a session is set, no step
\* changes it, whichever agent runs and whether or not the in-memory session
\* still holds the id.
C11_PersistedIdNeverOverwritten ==
    [][\A s \in SessionIds :
          persistedMemoryId[s] # NoMemoryId =>
              persistedMemoryId'[s] = persistedMemoryId[s]]_vars

\* C12: when an agent runs a session that has no memory session id, the
\* session afterwards holds the id minted from its content session id by
\* that agent, in memory and in the store.
C12_AbsentIdMintedAndPersisted ==
    [][\A s \in SessionIds :
          (AgentRan(s) /\ persistedMemoryId[s] = NoMemoryId
                       /\ memorySessionId[s] = NoMemoryId)
              => /\ persistedMemoryId'[s] = SyntheticMemoryId(lastRun'.provider, s)
                 /\ memorySessionId'[s] = persistedMemoryId'[s]]_vars

(***************************************************************************)
(* Properties of postJsonWithRetry                                         *)
(***************************************************************************)
\* a call of fetchFn that did not yield the parsed body of an OK response
FailedFetch(o) == ~(o.kind = "response" /\ ResponseOk(o.status) /\ o.body = "json")

\* C15 as stated: with attempts left, a failed attempt is followed by another
\* one exactly when it failed with a 408, 425, 429 or 5xx response or with a
\* network error.
C15_RetryOn5xxOrNetwork ==
    [][(fetchCalls' # fetchCalls /\ FailedFetch(lastFetch')
            /\ attempt < retryPolicy.maxAttempts)
          => (retryPc' = "sleeping"
                <=> \/ lastFetch'.kind = "reject"
                    \/ lastFetch'.status \in {408, 425, 429}
                    \/ lastFetch'.status \in 500..599)]_vars

\* C15: with attempts left, a failed attempt is followed by another one
\* exactly when it failed with a 408, 425, 429, 500, 502, 503 or 504 response
\* whose body was read, or with an error of fetchFn or of reading the body;
\* any other failed attempt makes the call throw at once.
C15_RetryOnListedStatusOrError ==
    [][(fetchCalls' # fetchCalls /\ FailedFetch(lastFetch')
            /\ attempt < retryPolicy.maxAttempts)
          => LET o == lastFetch'
                 retried == \/ o.kind = "reject"
                            \/ o.body = "unreadable"
                            \/ ResponseOk(o.status)
                            \/ o.status \in {408, 425, 429, 500, 502, 503, 504}
             IN  /\ retried <=> retryPc' = "sleeping"
                 /\ ~retried <=> retryPc' = "thrown"]_vars

\* after a 503 response that was retried, a 501 response ended the call with
\* an attempt left
C15_Witness ==
    /\ retryPolicy.maxAttempts = 3
    /\ fetchCalls = 2
    /\ Len(sleepCalls) = 1
    /\ lastFetch.status = 501
    /\ retryPc = "thrown"

\* C16: fetchFn is called at most maxAttempts times; the k-th call of sleepFn
\* follows the k-th failed attempt and waits baseDelayMs * 2^(k-1); when the
\* call has ended, every sleep lies between two attempts; after the attempt
\* number maxAttempts the call has ended.
C16_BoundedAttemptsAndBackoff ==
    /\ fetchCalls <= retryPolicy.maxAttempts
    /\ \A k \in 1..Len(sleepCalls) : sleepCalls[k] = retryPolicy.baseDelayMs * Pow2(k - 1)
    /\ retryPc = "sleeping" => Len(sleepCalls) = fetchCalls /\ fetchCalls < retryPolicy.maxAttempts
    /\ retryPc = "fetch" => Len(sleepCalls) = fetchCalls
    /\ retryPc \in {"returned", "thrown"} => Len(sleepCalls) = fetchCalls - 1
    /\ fetchCalls = retryPolicy.maxAttempts => retryPc \in {"returned", "thrown"}

\* a call used all of its three attempts and slept twice
C16_Witness ==
    /\ retryPolicy.maxAttempts >= 3
    /\ fetchCalls = retryPolicy.maxAttempts
    /\ Len(sleepCalls) = fetchCalls - 1
    /\ retryPc = "thrown"

(***************************************************************************)
(* Properties of the selection and of the POSTs of a run                   *)
(***************************************************************************)
\* what the run would have selected without a limit
SelectedWithoutLimit == SelectEntries(1, checkpointState, FALSE, 0, NoSince)

\* C17: the records selected under a limit N are the first N of the records
\* selected without a limit (all of them when there are fewer), never more
\* than N over all files, and within a file they are in line-number order.
C17_LimitSelectsPrefix ==
    LET all == SelectedWithoutLimit
        n == IF limitOpt.n < Len(all) THEN limitOpt.n ELSE Len(all)
    IN  runs > 0 =>
            /\ limitOpt.has => Len(selected) <= limitOpt.n /\ selected = SubSeq(all, 1, n)
            /\ ~limitOpt.has => selected = all
            /\ \A i, j \in 1..Len(selected) :
                   (i < j /\ selected[i].file = selected[j].file)
                       => selected[i].line < selected[j].line

\* a limit of two cut a selection that spans both files
C17_Witness ==
    /\ limitOpt.has /\ limitOpt.n = 2
    /\ Len(selected) = 2
    /\ Len(SelectedWithoutLimit) > 2
    /\ selected[1].file = 1 /\ selected[2].file = 2

\* the summarize POSTs of the run for session x, by position
SummarizePostsOf(x) ==
    {i \in 1..Len(posts) :
        posts[i].kind = "summarize" /\ posts[i].contentSessionId = <<"codex-", x>>}

\* every observation POST of session x comes before its summarize POSTs
ObservationsBeforeSummary(x) ==
    \A i \in SummarizePostsOf(x), j \in 1..Len(posts) :
        (posts[j].kind = "observation" /\ posts[j].contentSessionId = <<"codex-", x>>)
            => j < i

\* C18 as stated: after a run without --skip-summaries every session with an
\* ingested record has exactly one summarize POST, sent after the observation
\* POSTs of the session; with --skip-summaries there is no summarize POST.
C18_OneSummaryPerIngestedSession ==
    runPc = "idle" =>
        IF cliOptions.skipSummaries
        THEN \A i \in 1..Len(posts) : posts[i].kind # "summarize"
        ELSE \A x \in SessionNames :
                 (\E i \in 1..Len(ingested) : SessionOfEntry(ingested[i]) = x)
                     => Cardinality(SummarizePostsOf(x)) = 1 /\ ObservationsBeforeSummary(x)

\* C18: after a run without --skip-summaries every session with an ingested
\* record whose text is not blank has exactly one summarize POST, sent after
\* the observation POSTs of the session, and no other session has one; with
\* --skip-summaries there is no summarize POST.
C18_OneSummaryPerSessionWithText ==
    runPc = "idle" =>
        IF cliOptions.skipSummaries
        THEN \A i \in 1..Len(posts) : posts[i].kind # "summarize"
        ELSE \A x \in SessionNames :
                 IF \E i \in 1..Len(ingested) :
                        /\ SessionOfEntry(ingested[i]) = x
                        /\ Trim(TextOf(KindOfEntry(ingested[i]))) # ""
                 THEN Cardinality(SummarizePostsOf(x)) = 1 /\ ObservationsBeforeSummary(x)
                 ELSE SummarizePostsOf(x) = {}

\* a run ingested records of one session from both files and sent its summary
C18_Witness ==
    /\ runPc = "idle"
    /\ ~cliOptions.skipSummaries
    /\ sessionOf[2] = 1
    /\ \E i, j \in 1..Len(ingested) : ingested[i].file = 1 /\ ingested[j].file = 2
    /\ Cardinality({i \in 1..Len(posts) : posts[i].kind = "observation"}) >= 2
    /\ Cardinality(SummarizePostsOf(1)) = 1

\* the project a record belongs to: the last segment of its own workspace
\* path, or of the workspace of the CLI when it has none
ExpectedProject(f) ==
    IF WorkspacePathOf(f) # <<>>
    THEN WorkspacePathOf(f)[Len(WorkspacePathOf(f))]
    ELSE CliWorkspace[Len(CliWorkspace)]

InitPostsOf(e) ==
    {i \in 1..Len(posts) :
        posts[i].kind = "init" /\ posts[i].file = e.file /\ posts[i].line = e.line}

\* C19 as stated: every ingested record has an init POST, and every init POST
\* carries "codex-" + session_id, the project of the record, the text of the
\* record as prompt, and the platform "transcript".
C19_InitPostTranscriptPlatform ==
    /\ \A k \in 1..Len(ingested) : InitPostsOf(ingested[k]) # {}
    /\ \A i \in 1..Len(posts) :
           posts[i].kind = "init" =>
               /\ posts[i].contentSessionId = <<"codex-", sessionOf[posts[i].file]>>
               /\ posts[i].project = ExpectedProject(posts[i].file)
               /\ posts[i].prompt = TextOf(fileRecords[posts[i].file][posts[i].line])
               /\ posts[i].platform = "transcript"

\* C19: every ingested record whose text is not blank has an init POST, and
\* every init POST carries "codex-" + session_id, the project of the record,
\* the trimmed text of the record as prompt, and the platform "codex".
C19_InitPostCodexPlatform ==
    /\ \A k \in 1..Len(ingested) :
           Trim(TextOf(KindOfEntry(ingested[k]))) # "" => InitPostsOf(ingested[k]) # {}
    /\ \A i \in 1..Len(posts) :
           posts[i].kind = "init" =>
               /\ posts[i].contentSessionId = <<"codex-", sessionOf[posts[i].file]>>
               /\ posts[i].project = ExpectedProject(posts[i].file)
               /\ posts[i].prompt = Trim(TextOf(fileRecords[posts[i].file][posts[i].line]))
               /\ posts[i].prompt # ""
               /\ posts[i].platform = "codex"

\* a run sent init POSTs for a legacy record with padded text and for a
\* transcript record that has its own workspace path
C19_Witness ==
    \E i, j \in 1..Len(posts) :
        /\ posts[i].kind = "init" /\ posts[i].file = 1
        /\ fileRecords[1][posts[i].line] = "padded"
        /\ posts[i].project = "workspace"
        /\ posts[j].kind = "init" /\ posts[j].file = 2
        /\ posts[j].project = "project-alpha"

(***************************************************************************)
(* Properties of the checkpoint state file                                 *)
(***************************************************************************)
\* C20: the state loaded from a file with the legacy fields historyPath and
\* lastProcessedLineNumber maps that path to that line number, whatever the
\* fileCheckpoints object of the file says.
C20_LegacyStateMigrated ==
    (loadPc = "loaded" /\ checkpointFile.exists /\ checkpointFile.historyPath # 0) =>
        /\ checkpointFile.historyPath \in DOMAIN loadedCheckpoints
        /\ loadedCheckpoints[checkpointFile.historyPath]
               = checkpointFile.lastProcessedLineNumber

\* a file with nothing but the legacy fields was loaded
C20_Witness ==
    /\ loadPc = "loaded"
    /\ checkpointFile.exists
    /\ checkpointFile.fileCheckpoints = EmptyMap
    /\ checkpointFile.historyPath = 1
    /\ checkpointFile.lastProcessedLineNumber = MaxCheckpoint
    /\ loadedCheckpoints = [f \in {1} |-> MaxCheckpoint]

\* C21: with rate limiting enabled, two requests for the same model, whatever
\* sessions sent them, are at least minimumDelayMs(model) apart
C21_SameModelRequestsSpaced ==
    rateLimitingEnabled =>
        \A i, j \in 1..Len(requests) :
            (i < j /\ requests[i].model = requests[j].model) =>
                requests[j].at - requests[i].at >= minimumDelayMs(requests[i].model)

QuerySettled(s) == qPc[s] \in {"returned", "thrown"}
ModelRejected(f) == f.status \in {400, 404}

\* C22 as stated: a query whose first request is rejected with 400 or 404 is
\* retried once, with the fallback model, and never more than once
C22_RejectedModelRetriedOnce ==
    \A s \in QuerySessions :
        /\ Len(qFetches[s]) <= 2
        /\ (QuerySettled(s) /\ Len(qFetches[s]) >= 1 /\ ModelRejected(qFetches[s][1])) =>
               (Len(qFetches[s]) = 2 /\ qFetches[s][2].model = FallbackModel)

\* C22: a request for gemini-3-flash that is rejected with 400 or 404 is
\* retried exactly once, with gemini-2.5-flash, and a failure of the retry is
\* thrown with no further request; a request for another model is not retried
C22_Gemini3FlashRetriedOnce ==
    \A s \in QuerySessions :
        /\ Len(qFetches[s]) <= 2
        /\ (QuerySettled(s) /\ Len(qFetches[s]) >= 1) =>
               (Len(qFetches[s]) = 2 <=>
                    (qFetches[s][1].model = "gemini-3-flash" /\ ModelRejected(qFetches[s][1])))
        /\ Len(qFetches[s]) = 2 =>
               /\ qFetches[s][2].model = FallbackModel
               /\ qPc[s] = IF qFetches[s][2].status = 200 THEN "returned" ELSE "thrown"

C22_Witness ==
    \E s \in QuerySessions :
        /\ qPc[s] = "thrown"
        /\ Len(qFetches[s]) = 2
        /\ qFetches[s][1] = [model |-> "gemini-3-flash", status |-> 404]
        /\ qFetches[s][2] = [model |-> FallbackModel, status |-> 400]

PollingLimitMs == WORKER_STARTUP_WAIT_TIMEOUT_MS + WORKER_HEALTH_CHECK_TIMEOUT_MS

\* C24 as stated: at most two worker requests per tool call, the second one
\* only after a failed first one, a start attempt and a health check that
\* succeeded within the polling limit
C24_RetryOnlyAfterStartAttempt ==
    /\ Len(bRequests) <= 2
    /\ Len(bRequests) = 2 =>
           /\ bFirst = "unreachable"
           /\ bEnsure = "healthy"
           /\ bStarts = 1
           /\ bElapsed <= PollingLimitMs

\* C24: at most two worker requests per tool call; the second one is sent
\* exactly when the first one failed to reach the worker and the worker was
\* then found healthy, by the first health check or, after one start
\* attempt, by polling within the limit
C24_RetryOnceWhenFoundHealthy ==
    /\ Len(bRequests) <= 2
    /\ Len(bRequests) = 2 =>
           /\ bFirst = "unreachable"
           /\ bEnsure = "healthy"
           /\ bStarts <= 1
           /\ bElapsed <= PollingLimitMs
    /\ (bPc = "done" /\ bFirst = "unreachable") =>
           (Len(bRequests) = 2 <=> bEnsure = "healthy")
    /\ bElapsed < PollingLimitMs + WORKER_STARTUP_POLL_INTERVAL_MS

C24_Witness ==
    /\ bPc = "done"
    /\ Len(bRequests) = 2
    /\ bFirst = "unreachable"
    /\ bStarts = 1
    /\ bElapsed > WORKER_STARTUP_WAIT_TIMEOUT_MS
    /\ bEnsure = "healthy"
    /\ bResult = "content"

\* C25: after a load, every key has the value of its canonical environment
\* variable if set, else of its legacy one if set, else the value in the
\* settings file if present, else the default
C25_ResolutionOrder ==
    settingsLoaded =>
        \A k \in SettingKeys :
            loadedSettings[k] =
                IF processEnv[CanonicalKey(k)] # Undefined THEN processEnv[CanonicalKey(k)]
                ELSE IF processEnv[k] # Undefined THEN processEnv[k]
                ELSE IF FileValue(settingsFile, k) # Undefined THEN FileValue(settingsFile, k)
                ELSE DEFAULTS[k]

C25_Witness ==
    /\ settingsLoaded
    /\ processEnv["CODEX_MEM_PROVIDER"] = "env-a"
    /\ processEnv["CLAUDE_MEM_PROVIDER"] = "env-b"
    /\ processEnv["CLAUDE_CODE_PATH"] = Undefined
    /\ processEnv["CODEX_CODE_PATH"] = Undefined
    /\ FileValue(settingsFile, "CLAUDE_MEM_PROVIDER") = "file-value"
    /\ FileValue(settingsFile, "CLAUDE_CODE_PATH") = "file-value"
    /\ loadedSettings["CLAUDE_MEM_PROVIDER"] = "env-a"
    /\ loadedSettings["CLAUDE_CODE_PATH"] = "file-value"

\* C26: whatever the number of loads, at most one deprecation warning is
\* written for a legacy environment key
C26_WarningAtMostOncePerKey ==
    \A k \in SettingKeys : warnings[k] <= 1

C26_Witness ==
    /\ loads = 2
    /\ settingsLoaded
    /\ processEnv["CLAUDE_MEM_PROVIDER"] # Undefined
    /\ warnings["CLAUDE_MEM_PROVIDER"] = 1
    /\ warnings["CLAUDE_CODE_PATH"] = 0

CanonicalUntouched ==
    /\ canonicalDir = fsBefore.canonicalDir
    /\ lockFile = fsBefore.lockFile
    /\ reportFile = fsBefore.reportFile

\* C27: a run without force that finds the lock file of a completed
\* migration is skipped, copies no file and changes nothing
C27_LockedRunSkipped ==
    (migrationJustRan /\ fsBefore.lockFile # 0 /\ ~migrationOptions.force) =>
        /\ migrationResult.status = "skipped"
        /\ migrationResult.copiedFiles = 0
        /\ CanonicalUntouched

C27_Witness ==
    /\ migrationJustRan
    /\ migrationRuns = 2
    /\ fsBefore.lockFile = 1
    /\ ~migrationOptions.force
    /\ migrationOptions.overwrite
    /\ ~migrationOptions.dryRun
    /\ \E p \in RelativePaths :
           legacyDir.files[p] = LegacyContent /\ canonicalDir.files[p] = Absent
    /\ migrationResult.status = "skipped"

\* C28: a run without overwrite leaves every file that was in the canonical
\* directory with its content, and reports those that are also in the
\* legacy directory as skipped
C28_ExistingFilesKept ==
    (migrationJustRan /\ ~migrationOptions.overwrite) =>
        \A p \in RelativePaths :
            fsBefore.canonicalDir.files[p] # Absent =>
                /\ canonicalDir.files[p] = fsBefore.canonicalDir.files[p]
                /\ (migrationResult.status # "skipped" /\ legacyDir.files[p] # Absent) =>
                       p \in migrationResult.skippedDueToExisting

C28_Witness ==
    /\ migrationJustRan
    /\ ~migrationOptions.overwrite
    /\ migrationResult.status = "completed"
    /\ migrationResult.copiedFiles = 1
    /\ migrationResult.skippedDueToExisting = {"settings.json"}
    /\ legacyDir.files["settings.json"] = LegacyContent
    /\ canonicalDir.files["settings.json"] = CanonicalContent
    /\ canonicalDir.files["logs/worker.log"] = LegacyContent

\* C29: a dry run creates no canonical directory, copies no file and writes
\* neither the lock file nor the report
C29_DryRunChangesNothing ==
    (migrationJustRan /\ migrationOptions.dryRun) => CanonicalUntouched

C29_Witness ==
    /\ migrationJustRan
    /\ migrationOptions.dryRun
    /\ migrationResult.status = "dry-run"
    /\ migrationResult.copiedFiles = 2
    /\ ~canonicalDir.exists
    /\ lockFile = 0
    /\ reportFile = 0

\* C30: the stripped text holds no complete wrapper, and stripping it again
\* gives the same text
C30_StripIdempotent ==
    /\ stripPc # "input" => ~HasWrapper(stripped)
    /\ stripPc = "stripped-again" => strippedAgain = stripped

\* C31: a payload with more opening tags than MAX_TAG_COUNT is not put through
\* the regex replacements: what stripping returns for it is the payload, at
\* most trimmed, with every tag still in it.
C31_OverLimitNotReplaced ==
    (stripPc # "input" /\ countTags(content) > MAX_TAG_COUNT)
        => stripped \in {content, TrimText(content)}


\* the prompt is one <private> wrapper and nothing else: it starts with the
\* opening tag and the first closing tag is its last piece
EntirelyPrivate(text) ==
    /\ text # <<>>
    /\ OpenLenAt(text, 1, "<private>") > 0
    /\ ClosesAfter(text, 1, Wrappers[3]) = {Len(text)}

\* C32: a POST /sessions/init whose prompt is entirely enclosed in a <private>
\* wrapper is answered {skipped: true, reason: "private"}, writes no prompt
\* row and broadcasts no new_prompt event.
C32_PrivatePromptSkipped ==
    [][(initRequests' = initRequests + 1 /\ EntirelyPrivate(initPrompt))
          => /\ initResponse' = [skipped |-> TRUE, reason |-> "private"]
             /\ userPromptCount' = userPromptCount
             /\ savedPromptText' = savedPromptText
             /\ newPromptEvents' = newPromptEvents]_vars

C32_Witness ==
    /\ initRequests = 2
    /\ initPrompt = <<"<private>", "a", "</private>">>
    /\ initPlatform = "codex"
    /\ initResponse = [skipped |-> TRUE, reason |-> "private"]
    /\ userPromptCount = 0
    /\ savedPromptText = <<>>
    /\ newPromptEvents = 0


\* C33: a prompt search for which the vector backend gave no hit, or was
\* unreachable, answers with the matching rows of the relational full-text
\* store.
C33_PromptSearchFallsBack ==
    [][(searches' = searches + 1 /\ (vectorAnswer'.down \/ vectorAnswer'.ids = {}))
          => searchResult'.rows =
                 {i \in 1..Len(promptRows) :
                     /\ promptRows[i].text = searchArgs'.query
                     /\ promptRows[i].project = searchArgs'.project}]_vars

C33_Witness ==
    /\ searches = 2
    /\ ~vectorUp
    /\ vectorAnswer.down
    /\ promptVectors = {}
    /\ Len(promptRows) = 2
    /\ searchArgs = [query |-> "PLAYWRIGHT", project |-> "codex-mem"]
    /\ searchResult = [rows |-> {2}, source |-> "sqlite"]


\* the settings of the key above the first table, in order
TopLevelSettings(config, key) ==
    SelectSeq(topLevelLines(config.lines), LAMBDA line : IsKeyLineOf(line, {key}))
\* every other line that is not empty, in order
OtherConfiguration(config) ==
    SelectSeq(topLevelLines(config.lines),
              LAMBDA line : line # Blank /\ ~IsKeyLineOf(line, {"notifications", "notify"}))
        \o SelectSeq(nonTopLevelLines(config.lines), LAMBDA line : line # Blank)
HasManagedBlock(config) ==
    \E i \in 1..Len(config.lines) :
        config.lines[i] \in {CommentLine(MANAGED_BLOCK_START), CommentLine(MANAGED_BLOCK_END)}
RestoredFrom(before, after) ==
    /\ ~HasManagedBlock(after)
    /\ TopLevelSettings(after, "notifications") = TopLevelSettings(before, "notifications")
    /\ TopLevelSettings(after, "notify") = TopLevelSettings(before, "notify")
    /\ OtherConfiguration(after) = OtherConfiguration(before)

\* C34: an install followed by an uninstall removes the managed block, puts
\* back the top-level notifications and notify settings that were there before
\* the install and leaves every other line, tables included, as it was.
C34_InstallUninstallRestores ==
    (installerOp = "uninstall" /\ installsUndone = 1) => RestoredFrom(userConfig, configFile)

\* C40: an uninstall after two or more installs puts back the notifications
\* and notify settings that were there before the first of them.
C40_RepeatedInstallKeepsOriginal ==
    (installerOp = "uninstall" /\ installsUndone >= 2)
        => /\ TopLevelSettings(configFile, "notifications")
                  = TopLevelSettings(userConfig, "notifications")
           /\ TopLevelSettings(configFile, "notify") = TopLevelSettings(userConfig, "notify")


\* C35: at no moment do two notify-turn-complete invocations ingest.
C35_OneNotifyIngestion ==
    Cardinality({p \in NotifyRuns : notifyPc[p] = "ingesting"}) <= 1


\* C36: of the start attempts made by overlapping tool calls at most one is in
\* progress at any moment, a call that found the worker down while an attempt
\* was in progress waits for that attempt, and every call that waited gets the
\* outcome of the attempt it waited for.
C36_OneStartAttemptShared ==
    /\ Cardinality({k \in 1..Len(startAttempts) : startAttempts[k] = "polling"}) <= 1
    /\ \A k \in 1..Len(startAttempts) :
           startAttempts[k] = "polling" =>
               /\ workerStartupPromise = k
               /\ k = Len(startAttempts)
    /\ \A c \in Callers :
           /\ callerPc[c] = "awaiting" => callerWaitsOn[c] \in 1..Len(startAttempts)
           /\ (callerPc[c] = "returned" /\ callerWaitsOn[c] # 0) =>
                  callerResult[c] = startAttempts[callerWaitsOn[c]]

C36_Witness ==
    /\ startAttempts = <<"true">>
    /\ \A c \in Callers :
           /\ callerPc[c] = "returned"
           /\ callerWaitsOn[c] = 1
           /\ callerResult[c] = "true"


\* spec 4.4: the text is not empty and, unless --include-system is given, is
\* not a system line
Ingestible(f, l) ==
    /\ Trim(TextOf(fileRecords[f][l])) # ""
    /\ cliOptions.includeSystem \/ ~isSystemRecord(TextOf(fileRecords[f][l]))
BothPostsAccepted(f, l) == <<f, l>> \in initAccepted /\ observationPosts[<<f, l>>] >= 1

\* C37 as stated: whatever the limits, since-timestamps and POST failures of
\* the runs so far, every ingestible record at or below the stored checkpoint
\* of its file has had its init POST and its observation POST accepted.
C37_CheckpointedRecordsAccepted ==
    \A f \in Files : \A l \in 1..Len(fileRecords[f]) :
        (Ingestible(f, l) /\ l <= stateFile[f]) => BothPostsAccepted(f, l)

\* C37, amended: the same for the records whose timestamp is not below the
\* since-timestamp of any run so far that was not a dry run.
C37_CheckpointedRecordsAcceptedUnlessOld ==
    \A f \in Files : \A l \in 1..Len(fileRecords[f]) :
        (Ingestible(f, l) /\ l <= stateFile[f] /\ recordTs[f][l] >= sinceUsed)
            => BothPostsAccepted(f, l)

C37_Witness ==
    /\ runs = 2
    /\ runPc = "idle"
    /\ fileRecords[2] = <<"text", "text">>
    /\ recordTs[2] = <<2, 2>>
    /\ sinceUsed = 2
    /\ prevRun.saved /\ ~prevRun.allIngested
    /\ stateFile[2] = 2
    /\ BothPostsAccepted(2, 1) /\ BothPostsAccepted(2, 2)

\* C38: a dry run sends no request to the worker, does not call
\* ensureWorker, leaves the checkpoint state file as it is, and reports the
\* records a run that is not a dry run would select with the same options.
C38_DryRunOnlyReports ==
    [][(runs' # runs /\ dryRunOpt')
          => /\ runPc' = "idle"
             /\ posts' = <<>>
             /\ ensureWorkerCalls' = ensureWorkerCalls
             /\ stateFile' = stateFile
             /\ initAccepted' = initAccepted
             /\ observationPosts' = observationPosts
             /\ selected' = SelectEntries(1, stateFile, limitOpt'.has, limitOpt'.n,
                                          sinceOpt')]_vars

C38_Witness ==
    /\ runs = 2
    /\ dryRunOpt
    /\ runPc = "idle"
    /\ limitOpt = [has |-> TRUE, n |-> 1]
    /\ stateFile = [f \in Files |-> IF f = 2 THEN 1 ELSE 0]
    /\ selected = <<[file |-> 2, line |-> 2]>>
    /\ posts = <<>>
    /\ ensureWorkerCalls = 1

====
